---- MODULE Spec2Model ----
(***************************************************************************)
(* A model of the data-flow helpers of the vulnerable API gateway          *)
(* (TaintRelay, TaintTransform, ChainBuilder, ContextPropagation).         *)
(*                                                                         *)
(* JavaScript values are records [k, p, l]:                                *)
(*   k  the kind: "undefined", "null", "boolean", "number", "string",      *)
(*      "array", "object", "proto" (the object Object.prototype),          *)
(*      "function";                                                        *)
(*   p  the payload: <<>> for undefined and null, <<1>> for true and <<0>> *)
(*      for false, <<n>> for a number, the                                 *)
(*      sequence of UTF-16 code units of a string, the sequence of the     *)
(*      elements of an array, the sequence of the own enumerable           *)
(*      properties [key, val] of an object, in property order;             *)
(*   l  the provenance labels of the value: the origins of the data the    *)
(*      value was computed from.  The code keeps no labels; they are       *)
(*      tracked beside each payload by data dependence, so that the        *)
(*      comments "Taint preserved" of the source can be checked.           *)
(***************************************************************************)
EXTENDS Integers, Sequences, FiniteSets, TLC

\* ------------------------------------------------------------------ bounds
\* The longest string, array and property list among the generated inputs.
MaxStrLen == 2
MaxArrLen == 2
MaxProps == 2
\* The longest sink list of parallelSinks.
MaxSinks == 2
\* The longest source list of mergedSources.
MaxSources == 4
\* The most calls of storeUserPreferences.
MaxStores == 2

\* ------------------------------------------------------------ JS values
\* The object Object.prototype and the function Object.
ObjectPrototype == [k |-> "proto", p |-> <<>>, l |-> {}]
ObjectFunction == [k |-> "function", p |-> <<79, 98, 106, 101, 99, 116>>, l |-> {}]
Undef == [k |-> "undefined", p |-> <<>>, l |-> {}]
Null == [k |-> "null", p |-> <<>>, l |-> {}]
JsTrue == [k |-> "boolean", p |-> <<1>>, l |-> {}]
JsFalse == [k |-> "boolean", p |-> <<0>>, l |-> {}]
Num(n, L) == [k |-> "number", p |-> <<n>>, l |-> L]
Str(s, L) == [k |-> "string", p |-> s, l |-> L]
Arr(items) == [k |-> "array", p |-> items, l |-> {}]
Obj(props) == [k |-> "object", p |-> props, l |-> {}]
Prop(key, v) == [key |-> key, val |-> v]
WithLabels(v, L) == [v EXCEPT !.l = L]

IsContainer(v) == v.k \in {"array", "object"}

\* The items held by a container: the elements of an array, the property
\* values of an object.
Items(v) ==
  IF v.k = "array" THEN v.p
  ELSE IF v.k = "object" THEN [i \in 1..Len(v.p) |-> v.p[i].val]
  ELSE <<>>

\* labels(v): the labels of a value and of everything it holds.
RECURSIVE Labels(_)
Labels(v) ==
  v.l \cup UNION {Labels(Items(v)[i]) : i \in 1..Len(Items(v))}

\* payload(v): the value with every label removed.
RECURSIVE Payload(_)
Payload(v) ==
  IF v.k = "array"
    THEN [k |-> "array", l |-> {}, p |-> [i \in 1..Len(v.p) |-> Payload(v.p[i])]]
  ELSE IF v.k = "object"
    THEN [k |-> "object", l |-> {},
          p |-> [i \in 1..Len(v.p) |-> Prop(v.p[i].key, Payload(v.p[i].val))]]
  ELSE [v EXCEPT !.l = {}]

\* Every node of the value, leaves and containers, gets the labels L.
RECURSIVE Relabel(_, _)
Relabel(v, L) ==
  IF v.k = "array"
    THEN [k |-> "array", l |-> L, p |-> [i \in 1..Len(v.p) |-> Relabel(v.p[i], L)]]
  ELSE IF v.k = "object"
    THEN [k |-> "object", l |-> L,
          p |-> [i \in 1..Len(v.p) |-> Prop(v.p[i].key, Relabel(v.p[i].val, L))]]
  ELSE [v EXCEPT !.l = L]

\* Own property lookup on a plain object value.
HasOwn(o, key) == \E i \in 1..Len(o.p) : o.p[i].key = key
GetOwn(o, key) == o.p[CHOOSE i \in 1..Len(o.p) : o.p[i].key = key].val

\* Deep equality of two values' payloads; the order of an object's
\* properties does not count.
RECURSIVE DeepEqual(_, _)
DeepEqual(a, b) ==
  IF a.k # b.k THEN FALSE
  ELSE IF a.k = "array"
    THEN Len(a.p) = Len(b.p) /\ \A i \in 1..Len(a.p) : DeepEqual(a.p[i], b.p[i])
  ELSE IF a.k = "object"
    THEN /\ Len(a.p) = Len(b.p)
         /\ \A i \in 1..Len(a.p) :
              HasOwn(b, a.p[i].key) /\ DeepEqual(a.p[i].val, GetOwn(b, a.p[i].key))
  ELSE a.p = b.p

\* Results of a call: a returned value or a thrown error.
Return(v) == [out |-> "return", val |-> v, err |-> ""]
Throw(e) == [out |-> "throw", val |-> Undef, err |-> e]
NoResult == [out |-> "none", val |-> Undef, err |-> ""]

\* ------------------------------------------------- strings as code units
\* "undefined", "null", "[object Object]" as UTF-16 code units.
TextUndefined == <<117, 110, 100, 101, 102, 105, 110, 101, 100>>
TextNull == <<110, 117, 108, 108>>
TextObject == <<91, 111, 98, 106, 101, 99, 116, 32, 79, 98, 106, 101, 99, 116, 93>>
TextTrue == <<116, 114, 117, 101>>
TextFalse == <<102, 97, 108, 115, 101>>

RECURSIVE NumText(_)
\* The decimal digits of a non-negative integer.
NumText(n) == IF n < 10 THEN <<48 + n>> ELSE NumText(n \div 10) \o <<48 + (n % 10)>>

RECURSIVE Flatten(_)
\* The concatenation of a sequence of sequences.
Flatten(ss) == IF ss = <<>> THEN <<>> ELSE Head(ss) \o Flatten(Tail(ss))

RECURSIVE JoinWith(_, _)
\* The sequences of ss joined by the separator sep.
JoinWith(ss, sep) ==
  IF ss = <<>> THEN <<>>
  ELSE IF Len(ss) = 1 THEN ss[1]
  ELSE ss[1] \o sep \o JoinWith(Tail(ss), sep)

\* text.split(sep) for a separator of one character: the parts between
\* the occurrences of the separator.
Split(text, sep) ==
  LET at == {i \in 1..Len(text) : text[i] = sep}
      nth(k) == IF k = 0 THEN 0
                ELSE IF k > Cardinality(at) THEN Len(text) + 1
                ELSE CHOOSE i \in at : Cardinality({j \in at : j < i}) = k - 1
  IN [k \in 1..(Cardinality(at) + 1) |-> SubSeq(text, nth(k - 1) + 1, nth(k) - 1)]

\* String(v), as a template literal or String.prototype.replace applies
\* it: the text, with the labels of the data the text is made of.  An
\* object's text does not depend on what the object holds; in an array's
\* join, undefined and null elements give the empty string.
RECURSIVE ToStringText(_)
ToStringText(v) ==
  CASE v.k = "string" -> v.p
    [] v.k = "number" -> NumText(v.p[1])
    [] v.k = "boolean" -> IF v.p[1] = 1 THEN TextTrue ELSE TextFalse
    [] v.k = "undefined" -> TextUndefined
    [] v.k = "null" -> TextNull
    [] v.k = "array" ->
         JoinWith([i \in 1..Len(v.p) |->
                     IF v.p[i].k \in {"undefined", "null"} THEN <<>>
                     ELSE ToStringText(v.p[i])], <<44>>)
    [] OTHER -> TextObject

RECURSIVE ToStringLabels(_)
ToStringLabels(v) ==
  CASE v.k = "array" ->
         v.l \cup UNION {IF v.p[i].k \in {"undefined", "null"} THEN {}
                         ELSE ToStringLabels(v.p[i]) : i \in 1..Len(v.p)}
    [] OTHER -> v.l

JsToString(v) == Str(ToStringText(v), ToStringLabels(v))

\* Truthiness, as Array.prototype.filter applies it to its callback's result.
Truthy(v) ==
  CASE v.k \in {"undefined", "null"} -> FALSE
    [] v.k = "number" -> v.p[1] # 0
    [] v.k = "boolean" -> v.p[1] = 1
    [] v.k = "string" -> v.p # <<>>
    [] OTHER -> TRUE

\* --------------------------------------------------- UTF-8 and base64
IsHighSurrogate(c) == c >= 55296 /\ c <= 56319
IsLowSurrogate(c) == c >= 56320 /\ c <= 57343

RECURSIVE Utf8Encode(_)
\* Buffer.from(string): the UTF-8 bytes of the code units; a surrogate
\* pair is one 4-byte code point, a lone surrogate becomes U+FFFD.
Utf8Encode(s) ==
  IF s = <<>> THEN <<>>
  ELSE LET c == Head(s) IN
    IF c < 128 THEN <<c>> \o Utf8Encode(Tail(s))
    ELSE IF c < 2048
      THEN <<192 + (c \div 64), 128 + (c % 64)>> \o Utf8Encode(Tail(s))
    ELSE IF IsHighSurrogate(c) /\ Len(s) > 1 /\ IsLowSurrogate(s[2])
      THEN LET cp == 65536 + (c - 55296) * 1024 + (s[2] - 56320) IN
           <<240 + (cp \div 262144), 128 + ((cp \div 4096) % 64),
             128 + ((cp \div 64) % 64), 128 + (cp % 64)>>
           \o Utf8Encode(Tail(Tail(s)))
    ELSE IF IsHighSurrogate(c) \/ IsLowSurrogate(c)
      THEN <<239, 191, 189>> \o Utf8Encode(Tail(s))
    ELSE <<224 + (c \div 4096), 128 + ((c \div 64) % 64), 128 + (c % 64)>>
         \o Utf8Encode(Tail(s))

IsCont(bs, i) == i <= Len(bs) /\ bs[i] >= 128 /\ bs[i] <= 191

RECURSIVE Utf8Decode(_)
\* buffer.toString(): the code units of the UTF-8 bytes; a byte that starts
\* no complete sequence becomes U+FFFD.
Utf8Decode(bs) ==
  IF bs = <<>> THEN <<>>
  ELSE LET b == Head(bs) IN
    IF b < 128 THEN <<b>> \o Utf8Decode(Tail(bs))
    ELSE IF b >= 194 /\ b <= 223 /\ IsCont(bs, 2)
      THEN <<(b - 192) * 64 + (bs[2] - 128)>> \o Utf8Decode(SubSeq(bs, 3, Len(bs)))
    ELSE IF b >= 224 /\ b <= 239 /\ IsCont(bs, 2) /\ IsCont(bs, 3)
            /\ (b - 224) * 4096 + (bs[2] - 128) * 64 >= 2048
            /\ ~ IsHighSurrogate((b - 224) * 4096 + (bs[2] - 128) * 64)
            /\ ~ IsLowSurrogate((b - 224) * 4096 + (bs[2] - 128) * 64)
      THEN <<(b - 224) * 4096 + (bs[2] - 128) * 64 + (bs[3] - 128)>>
           \o Utf8Decode(SubSeq(bs, 4, Len(bs)))
    ELSE IF b >= 240 /\ b <= 244 /\ IsCont(bs, 2) /\ IsCont(bs, 3) /\ IsCont(bs, 4)
            /\ (b - 240) * 262144 + (bs[2] - 128) * 4096 >= 65536
            /\ (b - 240) * 262144 + (bs[2] - 128) * 4096 < 1114112
      THEN LET cp == (b - 240) * 262144 + (bs[2] - 128) * 4096
                     + (bs[3] - 128) * 64 + (bs[4] - 128) - 65536 IN
           <<55296 + (cp \div 1024), 56320 + (cp % 1024)>>
           \o Utf8Decode(SubSeq(bs, 5, Len(bs)))
    ELSE <<65533>> \o Utf8Decode(Tail(bs))

\* The base64 alphabet: A-Z a-z 0-9 + /, as code units; = pads.
B64Char(i) ==
  IF i < 26 THEN 65 + i
  ELSE IF i < 52 THEN 97 + (i - 26)
  ELSE IF i < 62 THEN 48 + (i - 52)
  ELSE IF i = 62 THEN 43 ELSE 47

B64Val(c) ==
  IF c >= 65 /\ c <= 90 THEN c - 65
  ELSE IF c >= 97 /\ c <= 122 THEN c - 97 + 26
  ELSE IF c >= 48 /\ c <= 57 THEN c - 48 + 52
  ELSE IF c = 43 THEN 62 ELSE 63

B64Pad == 61

RECURSIVE Base64Encode(_)
\* buffer.toString('base64'): 3 bytes give 4 characters, a rest of 1 or 2
\* bytes is padded with =.
Base64Encode(bs) ==
  IF bs = <<>> THEN <<>>
  ELSE IF Len(bs) = 1
    THEN <<B64Char(bs[1] \div 4), B64Char((bs[1] % 4) * 16), B64Pad, B64Pad>>
  ELSE IF Len(bs) = 2
    THEN <<B64Char(bs[1] \div 4), B64Char((bs[1] % 4) * 16 + (bs[2] \div 16)),
           B64Char((bs[2] % 16) * 4), B64Pad>>
  ELSE <<B64Char(bs[1] \div 4), B64Char((bs[1] % 4) * 16 + (bs[2] \div 16)),
         B64Char((bs[2] % 16) * 4 + (bs[3] \div 64)), B64Char(bs[3] % 64)>>
       \o Base64Encode(SubSeq(bs, 4, Len(bs)))

RECURSIVE Base64Decode(_)
\* Buffer.from(text, 'base64'): the bytes of the characters up to the
\* first =; 4 characters give 3 bytes, a rest of 2 or 3 gives 1 or 2.
Base64Decode(cs) ==
  IF Len(cs) < 2 \/ cs[1] = B64Pad \/ cs[2] = B64Pad THEN <<>>
  ELSE LET b1 == B64Val(cs[1]) * 4 + (B64Val(cs[2]) \div 16) IN
    IF Len(cs) < 3 \/ cs[3] = B64Pad THEN <<b1>>
    ELSE LET b2 == (B64Val(cs[2]) % 16) * 16 + (B64Val(cs[3]) \div 4) IN
      IF Len(cs) < 4 \/ cs[4] = B64Pad THEN <<b1, b2>>
      ELSE <<b1, b2, (B64Val(cs[3]) % 4) * 64 + B64Val(cs[4])>>
           \o Base64Decode(SubSeq(cs, 5, Len(cs)))

\* ---------------------------------------------------------------- JSON
HexDigit(d) == IF d < 10 THEN 48 + d ELSE 97 + (d - 10)
Hex4(n) ==
  <<HexDigit(n \div 4096), HexDigit((n \div 256) % 16),
    HexDigit((n \div 16) % 16), HexDigit(n % 16)>>

IsHexDigit(c) ==
  (c >= 48 /\ c <= 57) \/ (c >= 97 /\ c <= 102) \/ (c >= 65 /\ c <= 70)
HexVal(c) ==
  IF c >= 48 /\ c <= 57 THEN c - 48
  ELSE IF c >= 97 /\ c <= 102 THEN c - 97 + 10
  ELSE c - 65 + 10

RECURSIVE QuoteBody(_)
\* QuoteJSONString without the enclosing quotes: " and \ are escaped,
\* control characters and lone surrogates are written \b \t \n \f \r or
\* \uXXXX, a surrogate pair and everything else stand for themselves.
QuoteBody(s) ==
  IF s = <<>> THEN <<>>
  ELSE LET c == Head(s) IN
    IF IsHighSurrogate(c) /\ Len(s) > 1 /\ IsLowSurrogate(s[2])
      THEN <<c, s[2]>> \o QuoteBody(Tail(Tail(s)))
    ELSE (CASE c = 8 -> <<92, 98>>
            [] c = 9 -> <<92, 116>>
            [] c = 10 -> <<92, 110>>
            [] c = 12 -> <<92, 102>>
            [] c = 13 -> <<92, 114>>
            [] c = 34 -> <<92, 34>>
            [] c = 92 -> <<92, 92>>
            [] c < 32 /\ c \notin {8, 9, 10, 12, 13} -> <<92, 117>> \o Hex4(c)
            [] IsHighSurrogate(c) \/ IsLowSurrogate(c) -> <<92, 117>> \o Hex4(c)
            [] OTHER -> <<c>>)
         \o QuoteBody(Tail(s))

\* A quoting that escapes nothing.
QuoteJSONString_NoEscape(s) == <<34>> \o s \o <<34>>

QuoteJSONString(s) == <<34>> \o QuoteBody(s) \o <<34>>

\* The indices of the properties JSON.stringify writes: those whose value
\* is not undefined.
RECURSIVE SerializedProps(_, _)
SerializedProps(props, i) ==
  IF i > Len(props) THEN <<>>
  ELSE (IF props[i].val.k = "undefined" THEN <<>> ELSE <<props[i]>>)
       \o SerializedProps(props, i + 1)

RECURSIVE StringifyText(_)
\* SerializeJSONProperty for a value that is not undefined: the JSON text.
\* An undefined array element is written null.
StringifyText(v) ==
  CASE v.k = "string" -> QuoteJSONString(v.p)
    [] v.k = "number" -> NumText(v.p[1])
    [] v.k = "boolean" -> IF v.p[1] = 1 THEN TextTrue ELSE TextFalse
    [] v.k \in {"null", "undefined"} -> TextNull
    [] v.k = "array" ->
         <<91>> \o JoinWith([i \in 1..Len(v.p) |-> StringifyText(v.p[i])], <<44>>)
         \o <<93>>
    [] OTHER ->
         LET ps == SerializedProps(v.p, 1) IN
         <<123>>
         \o JoinWith([i \in 1..Len(ps) |->
                        QuoteJSONString(ps[i].key) \o <<58>> \o StringifyText(ps[i].val)],
                     <<44>>)
         \o <<125>>

RECURSIVE StringifyLabels(_)
\* The labels of the data the JSON text is made of.
StringifyLabels(v) ==
  CASE v.k = "array" ->
         v.l \cup UNION {StringifyLabels(v.p[i]) : i \in 1..Len(v.p)}
    [] v.k = "object" ->
         LET ps == SerializedProps(v.p, 1) IN
         v.l \cup UNION {StringifyLabels(ps[i].val) : i \in 1..Len(ps)}
    [] OTHER -> v.l

\* JSON.stringify(data): undefined for undefined, else the JSON text.
JsonStringify(v) ==
  IF v.k = "undefined" THEN Undef
  ELSE Str(StringifyText(v), StringifyLabels(v))

\* ---- JSON.parse: a recursive-descent parser over the code units.  A
\* parse step returns [ok, v, i]: whether it succeeded, the value, and the
\* index after it.
ParseFail == [ok |-> FALSE, v |-> Undef, i |-> 0]
ParseOk(v, i) == [ok |-> TRUE, v |-> v, i |-> i]

IsJsonWs(c) == c \in {32, 9, 10, 13}

RECURSIVE SkipWs(_, _)
SkipWs(t, i) == IF i <= Len(t) /\ IsJsonWs(t[i]) THEN SkipWs(t, i + 1) ELSE i

RECURSIVE ParseStringBody(_, _, _)
\* The characters of a JSON string after its opening quote.
ParseStringBody(t, i, acc) ==
  IF i > Len(t) THEN ParseFail
  ELSE LET c == t[i] IN
    IF c = 34 THEN ParseOk(Str(acc, {}), i + 1)
    ELSE IF c < 32 THEN ParseFail
    ELSE IF c # 92 THEN ParseStringBody(t, i + 1, Append(acc, c))
    ELSE IF i + 1 > Len(t) THEN ParseFail
    ELSE LET e == t[i + 1] IN
      IF e \in {34, 92, 47} THEN ParseStringBody(t, i + 2, Append(acc, e))
      ELSE IF e = 98 THEN ParseStringBody(t, i + 2, Append(acc, 8))
      ELSE IF e = 116 THEN ParseStringBody(t, i + 2, Append(acc, 9))
      ELSE IF e = 110 THEN ParseStringBody(t, i + 2, Append(acc, 10))
      ELSE IF e = 102 THEN ParseStringBody(t, i + 2, Append(acc, 12))
      ELSE IF e = 114 THEN ParseStringBody(t, i + 2, Append(acc, 13))
      ELSE IF e = 117 /\ i + 5 <= Len(t)
              /\ \A j \in (i + 2)..(i + 5) : IsHexDigit(t[j])
        THEN ParseStringBody(t, i + 6,
               Append(acc, HexVal(t[i + 2]) * 4096 + HexVal(t[i + 3]) * 256
                           + HexVal(t[i + 4]) * 16 + HexVal(t[i + 5])))
      ELSE ParseFail

IsDigit(c) == c >= 48 /\ c <= 57

RECURSIVE ParseDigits(_, _, _)
ParseDigits(t, i, n) ==
  IF i <= Len(t) /\ IsDigit(t[i]) THEN ParseDigits(t, i + 1, n * 10 + (t[i] - 48))
  ELSE ParseOk(Num(n, {}), i)

\* A JSON number: here a non-negative integer without a leading zero, the
\* only numbers JSON.stringify writes for the numbers of the model.
ParseNumber(t, i) ==
  IF t[i] = 48 THEN ParseOk(Num(0, {}), i + 1) ELSE ParseDigits(t, i, 0)

RECURSIVE ParseValue(_, _)
RECURSIVE ParseElements(_, _, _)
RECURSIVE ParseMembers(_, _, _)

\* The elements of an array after [ or a comma, up to the closing ].
ParseElements(t, i, acc) ==
  LET r == ParseValue(t, i) IN
  IF ~ r.ok THEN ParseFail
  ELSE LET j == SkipWs(t, r.i) IN
    IF j > Len(t) THEN ParseFail
    ELSE IF t[j] = 93 THEN ParseOk(Arr(Append(acc, r.v)), j + 1)
    ELSE IF t[j] = 44 THEN ParseElements(t, j + 1, Append(acc, r.v))
    ELSE ParseFail

\* A later member with the key of an earlier one replaces its value.
PutProp(props, key, v) ==
  IF \E n \in 1..Len(props) : props[n].key = key
    THEN [n \in 1..Len(props) |->
            IF props[n].key = key THEN Prop(key, v) ELSE props[n]]
  ELSE Append(props, Prop(key, v))

\* The members of an object after { or a comma, up to the closing }.
ParseMembers(t, i, acc) ==
  LET j == SkipWs(t, i) IN
  IF j > Len(t) \/ t[j] # 34 THEN ParseFail
  ELSE LET key == ParseStringBody(t, j + 1, <<>>) IN
    IF ~ key.ok THEN ParseFail
    ELSE LET c == SkipWs(t, key.i) IN
      IF c > Len(t) \/ t[c] # 58 THEN ParseFail
      ELSE LET r == ParseValue(t, c + 1) IN
        IF ~ r.ok THEN ParseFail
        ELSE LET e == SkipWs(t, r.i) IN
          IF e > Len(t) THEN ParseFail
          ELSE IF t[e] = 125
            THEN ParseOk(Obj(PutProp(acc, key.v.p, r.v)), e + 1)
          ELSE IF t[e] = 44
            THEN ParseMembers(t, e + 1, PutProp(acc, key.v.p, r.v))
          ELSE ParseFail

ParseValue(t, i) ==
  LET j == SkipWs(t, i) IN
  IF j > Len(t) THEN ParseFail
  ELSE LET c == t[j] IN
    IF c = 34 THEN ParseStringBody(t, j + 1, <<>>)
    ELSE IF IsDigit(c) THEN ParseNumber(t, j)
    ELSE IF c = 110
      THEN IF j + 3 <= Len(t) /\ SubSeq(t, j, j + 3) = TextNull
             THEN ParseOk(Null, j + 4) ELSE ParseFail
    ELSE IF c = 91
      THEN LET e == SkipWs(t, j + 1) IN
           IF e <= Len(t) /\ t[e] = 93 THEN ParseOk(Arr(<<>>), e + 1)
           ELSE ParseElements(t, j + 1, <<>>)
    ELSE IF c = 123
      THEN LET e == SkipWs(t, j + 1) IN
           IF e <= Len(t) /\ t[e] = 125 THEN ParseOk(Obj(<<>>), e + 1)
           ELSE ParseMembers(t, j + 1, <<>>)
    ELSE ParseFail

\* JSON.parse(text): the argument is converted to a string first; a text
\* that is no JSON value throws SyntaxError.  Everything parsed from a
\* text carries the labels of the text.
JsonParse(x) ==
  LET text == JsToString(x)
      r == ParseValue(text.p, 1)
  IN IF r.ok /\ SkipWs(text.p, r.i) = Len(text.p) + 1
       THEN Return(Relabel(r.v, text.l))
     ELSE Throw("SyntaxError")

\* ------------------------------------------------- property enumeration
\* The key of index i (from 1) of a string or an array: "0", "1", ...
IndexKey(i) == NumText(i - 1)

\* The own enumerable string-keyed properties of ToObject(v), in property
\* order, as Object.entries and the spread {...v} read them: the
\* characters of a string, the elements of an array, the properties of an
\* object, nothing for a number.
OwnProps(v) ==
  CASE v.k = "string" -> [i \in 1..Len(v.p) |-> Prop(IndexKey(i), Str(<<v.p[i]>>, v.l))]
    [] v.k = "array" -> [i \in 1..Len(v.p) |-> Prop(IndexKey(i), v.p[i])]
    [] v.k = "object" -> v.p
    [] OTHER -> <<>>

\* v[key] for the keys a, b, c: an own property of an object, undefined
\* otherwise (no prototype of the values modelled has such a property).
GetProp(v, key) ==
  IF v.k = "object" /\ HasOwn(v, key) THEN GetOwn(v, key) ELSE Undef

KeyA == <<97>>
KeyB == <<98>>
KeyC == <<99>>
KeyValue == <<118, 97, 108, 117, 101>>

\* ------------------------------------------------------------ TaintRelay
passthrough(data) == Return(data)

arrayRelay(data) ==
  LET arr == Arr(<<data>>) IN Return(arr.p[1])

objectRelay(data) ==
  LET obj == Obj(<<Prop(KeyValue, data)>>) IN Return(GetOwn(obj, KeyValue))

\* asyncRelay(data): the executor schedules a timer that resolves the
\* promise with data; the call returns the pending promise.
asyncRelayTimer(data) == data

\* callbackRelay(data, callback): the sequence of arguments the callback
\* is invoked with; the function itself returns undefined.
callbackRelayCalls(data) == <<data>>
callbackRelay(data) == Return(Undef)

multiHopRelay(data) ==
  LET step1 == passthrough(data).val
      step2 == arrayRelay(step1).val
      step3 == objectRelay(step2).val
  IN Return(step3)

\* -------------------------------------------------------- TaintTransform
concat(prefix, taintedData, suffix) ==
  LET a == JsToString(prefix)
      b == JsToString(taintedData)
      c == JsToString(suffix)
  IN Return(Str(a.p \o b.p \o c.p, a.l \cup b.l \cup c.l))

\* The first index at which pat occurs in text, 0 when it does not occur.
IndexOf(text, pat) ==
  LET hits == {i \in 1..(Len(text) - Len(pat) + 1) :
                 SubSeq(text, i, i + Len(pat) - 1) = pat}
  IN IF hits = {} THEN 0 ELSE CHOOSE i \in hits : \A j \in hits : i <= j

RECURSIVE GetSubstitution(_, _, _, _)
\* The replacement text of String.prototype.replace with a string pattern:
\* $$ is $, $& the match, $` the text before it, $' the text after it;
\* there are no captures, so every other $ stands for itself.
GetSubstitution(repl, matched, before, after) ==
  IF repl = <<>> THEN <<>>
  ELSE IF Head(repl) = 36 /\ Len(repl) > 1 /\ repl[2] \in {36, 38, 96, 39}
    THEN (CASE repl[2] = 36 -> <<36>>
            [] repl[2] = 38 -> matched
            [] repl[2] = 96 -> before
            [] OTHER -> after)
         \o GetSubstitution(Tail(Tail(repl)), matched, before, after)
  ELSE <<Head(repl)>> \o GetSubstitution(Tail(repl), matched, before, after)

\* result.replace(pattern, value) on a string: the first occurrence of
\* the pattern is replaced; without one the string is returned unchanged
\* and nothing of value enters it.
StringReplace(str, pat, value) ==
  LET i == IndexOf(str.p, pat)
      repl == JsToString(value)
  IN IF i = 0 THEN str
     ELSE LET before == SubSeq(str.p, 1, i - 1)
              after == SubSeq(str.p, i + Len(pat), Len(str.p))
          IN Str(before \o GetSubstitution(repl.p, pat, before, after) \o after,
                 str.l \cup repl.l)

RECURSIVE interpolateLoop(_, _, _)
\* The loop of interpolate over the entries from index i on.  A result
\* that is no string has no replace method: TypeError.
interpolateLoop(result, entries, i) ==
  IF i > Len(entries) THEN Return(result)
  ELSE IF result.k # "string" THEN Throw("TypeError")
  ELSE interpolateLoop(
         StringReplace(result, <<123>> \o entries[i].key \o <<125>>, entries[i].val),
         entries, i + 1)

interpolate(template, values) ==
  IF values.k \in {"undefined", "null"} THEN Throw("TypeError")
  ELSE interpolateLoop(template, OwnProps(values), 1)

jsonRoundTrip(data) ==
  LET json == JsonStringify(data) IN JsonParse(json)

\* ToNumber of an array element written into a Buffer, modulo 256: the
\* number itself, the value of a string of decimal digits, and 0 for
\* everything that converts to 0 or to NaN.
ByteOf(v) ==
  LET text == IF v.k \in {"string", "array"} THEN ToStringText(v) ELSE <<>> IN
  IF v.k = "number" THEN v.p[1] % 256
  ELSE IF text # <<>> /\ \A i \in 1..Len(text) : IsDigit(text[i])
    THEN ParseDigits(text, 1, 0).v.p[1] % 256
  ELSE 0

\* Buffer.from(data): the UTF-8 bytes of a string, one byte per element of
\* an array; a number, undefined, null or a plain object is refused with
\* TypeError.
BufferFrom(data) ==
  IF data.k = "string" THEN Return(Str(Utf8Encode(data.p), data.l))
  ELSE IF data.k = "array"
    THEN Return(Str([i \in 1..Len(data.p) |-> ByteOf(data.p[i])], Labels(data)))
  ELSE Throw("TypeError")

base64RoundTrip(data) ==
  LET buf == BufferFrom(data) IN
  IF buf.out = "throw" THEN buf
  ELSE LET encoded == Str(Base64Encode(buf.val.p), buf.val.l) IN
       Return(Str(Utf8Decode(Base64Decode(encoded.p)), encoded.l))

\* The subsequence of the items that are truthy.
RECURSIVE FilterTruthy(_)
FilterTruthy(items) ==
  IF items = <<>> THEN <<>>
  ELSE (IF Truthy(Head(items)) THEN <<Head(items)>> ELSE <<>>)
       \o FilterTruthy(Tail(items))

\* Only an array has map, filter and reduce among the values modelled.
arrayOperations(taintedArray) ==
  IF taintedArray.k # "array" THEN Throw("TypeError")
  ELSE LET mapped == [i \in 1..Len(taintedArray.p) |-> taintedArray.p[i]]
           filtered == FilterTruthy(mapped)
       IN Return(Arr(filtered))

objectSpread(taintedObj) == Return(Obj(OwnProps(taintedObj)))

\* Destructuring undefined or null throws TypeError.
destructure(taintedObj) ==
  IF taintedObj.k \in {"undefined", "null"} THEN Throw("TypeError")
  ELSE Return(Obj(<<Prop(KeyA, GetProp(taintedObj, KeyA)),
                    Prop(KeyB, GetProp(taintedObj, KeyB)),
                    Prop(KeyC, GetProp(taintedObj, KeyC))>>))

\* ================================================================ state
VARIABLES
  cKind,        \* the ChainBuilder method of the run, "none" before the call
  cState,       \* PENDING (not called), RUNNING (the promise of the call is
                \* pending), COMPLETED (fulfilled), FAILED (rejected)
  cPc,          \* where the async function stands: the await it is suspended at
  cSource,      \* the source value of the run
  cTransformer, \* the transformer of simpleChain
  cSinks,       \* the behaviour of each capability (sink) of the run
  cCalls,       \* the capability invocations so far, in order: [cap, arg]
  cProm,        \* what each capability invocation returned: [st, val, err]
  cAll,         \* the promise of Promise.all in parallelSinks
  cResult,      \* what the run's promise was fulfilled or rejected with
  cEnv          \* what complexChain's collaborators hold: the rows of the
                \* database and the content of the file

chainVars ==
  <<cKind, cState, cPc, cSource, cTransformer, cSinks, cCalls, cProm, cAll, cResult,
    cEnv>>

VARIABLES
  rIn,        \* the argument the relay or transform operator is applied to
  rArgs,      \* the other arguments of the call (prefix, suffix, template)
  rOp,        \* "idle", or the operator that was called
  rResult,    \* what the call returned or threw
  rCallback,  \* the arguments callbackRelay's callback was invoked with
  rPromise,   \* the promise asyncRelay returned: [st, val]
  rTimers     \* the values of the timers asyncRelay scheduled and not yet fired

relayVars == <<rIn, rArgs, rOp, rResult, rCallback, rPromise, rTimers>>

\* A ContextPropagation object.
VARIABLES
  context,       \* this.context: its own properties, in property order
  contextProto,  \* the prototype of this.context: Object.prototype, an
                 \* object, or null
  sLast          \* the last call of the object: method, key, value, result

storeVars == <<context, contextProto, sLast>>

\* The calls of the methods of the object that use a sink.
VARIABLES
  sRuns,       \* per call: the method, where it stands, its arguments, the
               \* value it read, the promise of its sink, its result
  sSinkCalls   \* the sink invocations made so far, in order

runVars == <<sRuns, sSinkCalls>>

\* The services and routes of the gateway.
VARIABLES
  session,   \* per session: session.userPrefs, undefined until it is stored
  files,     \* the files written under /var/app/data/: path and content,
             \* in the order of the writes
  tasks,     \* per call of an async service method or route handler: the
             \* method, where it stands, its argument, how its capabilities
             \* behave, the promise it awaits, its result
  effects    \* the calls of sinks and the replies sent so far, in order

svcVars == <<session, files, tasks, effects>>

\* The WebSocketService.
VARIABLES
  clients,   \* this.clients: the Map of client id to socket, in insertion order
  sockets,   \* per socket: whether it is connected, and its client id
  microtasks \* the promise jobs that wait for their turn, in order: the
             \* continuation of an async function after an await
wsVars == <<clients, sockets, microtasks>>

\* The middleware of the gateway.
VARIABLE
  sessionUser  \* per session: req.session.user, undefined until a login
authVars == <<sessionUser>>

\* The DatabaseConfig.
VARIABLE
  database  \* this.mysqlPool and this.mongoClient: 0 for null, else the number
      \* of the pool and of the client
dbVars == <<database>>

\* What the operations of one component leave alone: the state of the
\* other components.
notChainVars == <<relayVars, storeVars, runVars, svcVars, wsVars, authVars, dbVars>>
notRelayVars == <<chainVars, storeVars, runVars, svcVars, wsVars, authVars, dbVars>>
notStoreVars == <<chainVars, relayVars, svcVars, wsVars, authVars, dbVars>>
notSvcVars == <<chainVars, relayVars, storeVars, runVars, wsVars, authVars, dbVars>>
notWsVars == <<chainVars, relayVars, storeVars, runVars, authVars, dbVars>>
notAuthVars == <<chainVars, relayVars, storeVars, runVars, wsVars, session, files, dbVars>>
notDbVars == <<chainVars, relayVars, storeVars, runVars, wsVars, session, files, authVars>>

\* The sockets of the model, and a socket before its connection.
Sockets == {1, 2}
NoSocket == [state |-> "none", clientId |-> <<>>]

\* The sessions, and the calls that run concurrently.
Sessions == {1, 2}
Tasks == {1, 2}
NoTask ==
  [kind |-> "none", pc |-> "idle", sid |-> 0, arg |-> Undef, behs |-> <<>>,
   prom |-> [st |-> "none", val |-> Undef, err |-> ""], got |-> Undef,
   data |-> Undef, caught |-> "", result |-> NoResult, req |-> Undef]

\* The two calls that run concurrently.
Runs == {1, 2}
NoRun ==
  [kind |-> "none", pc |-> "idle", inKey |-> <<>>, outKey |-> <<>>, input |-> Undef,
   beh |-> "none", prom |-> [st |-> "none", val |-> Undef, err |-> ""],
   result |-> NoResult]

\* Before the first call.
NoCall == [op |-> "none", key |-> <<>>, val |-> Undef, res |-> Undef]

\* ------------------------------------------------------- input values
\* Code units of the generated strings: l, ", $, &, e-acute (2 UTF-8
\* bytes), a high and a low surrogate (a pair, or lone).
Alphabet == {108, 34, 36, 38, 233, 55296, 56320}

RECURSIVE StringsUpTo(_)
StringsUpTo(n) ==
  IF n = 0 THEN {<<>>}
  ELSE LET shorter == StringsUpTo(n - 1) IN
       shorter \cup {Append(s, c) : s \in {t \in shorter : Len(t) = n - 1}, c \in Alphabet}

LabelSets == {{}, {"HTTP_BODY"}, {"WEBSOCKET"}}

TextLs == <<108, 115>>
TextLa == <<32, 45, 108, 97>>
TextId == <<105, 100>>
TextOr == <<49, 32, 79, 82, 32, 49, 61, 49>>
KeyD == <<100>>
KeyField == <<102, 105, 101, 108, 100>>

\* The WebSocket payload {"field": "id", "value": "1 OR 1=1"}.
WsPayload ==
  Obj(<<Prop(KeyField, Str(TextId, {"WEBSOCKET"})),
        Prop(KeyValue, Str(TextOr, {"WEBSOCKET"}))>>)

\* Labelled values hold data: undefined, null and the empty string are
\* generated without labels.
Primitives ==
  {Str(s, L) : s \in (StringsUpTo(MaxStrLen) \cup {TextLs, TextOr}) \ {<<>>},
               L \in LabelSets}
  \cup {Num(n, L) : n \in {0, 1}, L \in LabelSets}
  \cup {Str(<<>>, {}), Undef, Null}

\* What the generated arrays and objects hold.
Elements ==
  {Undef, Null, Num(0, {"HTTP_BODY"}), Num(1, {}), Str(<<>>, {}),
   Str(<<108>>, {"HTTP_BODY"}), Str(<<34>>, {"WEBSOCKET"})}

RECURSIVE SeqsUpTo(_, _)
SeqsUpTo(S, n) ==
  IF n = 0 THEN {<<>>}
  ELSE LET shorter == SeqsUpTo(S, n - 1) IN
       shorter \cup {Append(s, x) : s \in {t \in shorter : Len(t) = n - 1}, x \in S}

Arrays == {Arr(items) : items \in SeqsUpTo(Elements, MaxArrLen)}

ObjectKeys == {KeyA, KeyB, KeyD}
DistinctKeys(props) ==
  \A i, j \in 1..Len(props) : i # j => props[i].key # props[j].key
Objects ==
  {Obj(props) : props \in
     {ps \in SeqsUpTo({Prop(key, v) : key \in ObjectKeys, v \in Elements}, MaxProps) :
        DistinctKeys(ps)}}
  \cup {WsPayload}

InputValues == Primitives \cup Arrays \cup Objects

\* The templates of interpolate: "", "{a}", "l{a}{b}", "{d}{a}", "{a", and
\* a template that is no string.
Templates ==
  {Str(<<>>, {}), Str(<<123, 97, 125>>, {}),
   Str(<<108, 123, 97, 125, 123, 98, 125>>, {}),
   Str(<<123, 100, 125, 123, 97, 125>>, {}), Str(<<123, 97>>, {}), Undef}

Prefixes == {Str(<<>>, {}), Str(<<108>>, {})}
Suffixes == {Str(TextLa, {})}

NoArgs == [prefix |-> Undef, suffix |-> Undef, template |-> Undef]
NoPromise == [st |-> "none", val |-> Undef]

RelayInit ==
  /\ rIn \in InputValues
  /\ rArgs = NoArgs
  /\ rOp = "idle"
  /\ rResult = NoResult
  /\ rCallback = <<>>
  /\ rPromise = NoPromise
  /\ rTimers = <<>>
  /\ cKind = "none"
  /\ cState = "PENDING"
  /\ cPc = "start"
  /\ cSource = Undef
  /\ cTransformer = "none"
  /\ cSinks = <<>>
  /\ cCalls = <<>>
  /\ cProm = <<>>
  /\ cAll = [st |-> "none", val |-> Undef, err |-> ""]
  /\ cResult = NoResult
  /\ cEnv = [rows |-> Arr(<<>>), content |-> Str(<<>>, {})]
  /\ context = Obj(<<>>)
  /\ contextProto = ObjectPrototype
  /\ sLast = NoCall
  /\ sRuns = [r \in Runs |-> NoRun]
  /\ sSinkCalls = <<>>
  /\ session = [sid \in Sessions |-> Undef]
  /\ files = <<>>
  /\ tasks = [t \in Tasks |-> NoTask]
  /\ effects = <<>>
  /\ clients = <<>>
  /\ sockets = [s \in Sockets |-> NoSocket]
  /\ microtasks = <<>>
  /\ sessionUser = [sid \in Sessions |-> Undef]
  /\ database = [mysqlPool |-> 0, mongoClient |-> 0]

\* A synchronous operator with the one argument rIn is called.
CallSync(name, result) ==
  /\ rOp = "idle"
  /\ rOp' = name
  /\ rResult' = result
  /\ UNCHANGED <<rIn, rArgs, rCallback, rPromise, rTimers>>
  /\ UNCHANGED notRelayVars

Passthrough == CallSync("passthrough", passthrough(rIn))
ArrayRelay == CallSync("arrayRelay", arrayRelay(rIn))
ObjectRelay == CallSync("objectRelay", objectRelay(rIn))
MultiHopRelay == CallSync("multiHopRelay", multiHopRelay(rIn))
JsonRoundTrip == CallSync("jsonRoundTrip", jsonRoundTrip(rIn))
Base64RoundTrip == CallSync("base64RoundTrip", base64RoundTrip(rIn))
ArrayOperations == CallSync("arrayOperations", arrayOperations(rIn))
ObjectSpread == CallSync("objectSpread", objectSpread(rIn))
Destructure == CallSync("destructure", destructure(rIn))

\* asyncRelay(rIn): the promise is pending until the timer fires.
AsyncRelay ==
  /\ rOp = "idle"
  /\ rOp' = "asyncRelay"
  /\ rPromise' = [st |-> "pending", val |-> Undef]
  /\ rTimers' = Append(rTimers, asyncRelayTimer(rIn))
  /\ UNCHANGED <<rIn, rArgs, rResult, rCallback>>
  /\ UNCHANGED notRelayVars

\* The timer of asyncRelay fires: resolve(data).
TimerFire ==
  /\ rTimers # <<>>
  /\ rPromise' = [st |-> "fulfilled", val |-> Head(rTimers)]
  /\ rTimers' = Tail(rTimers)
  /\ UNCHANGED <<rIn, rArgs, rOp, rResult, rCallback>>
  /\ UNCHANGED notRelayVars

CallbackRelay ==
  /\ rOp = "idle"
  /\ rOp' = "callbackRelay"
  /\ rCallback' = rCallback \o callbackRelayCalls(rIn)
  /\ rResult' = callbackRelay(rIn)
  /\ UNCHANGED <<rIn, rArgs, rPromise, rTimers>>
  /\ UNCHANGED notRelayVars

\* concat(prefix, rIn, suffix)
Concat ==
  /\ rOp = "idle"
  /\ \E prefix \in Prefixes, suffix \in Suffixes :
       /\ rArgs' = [rArgs EXCEPT !.prefix = prefix, !.suffix = suffix]
       /\ rResult' = concat(prefix, rIn, suffix)
  /\ rOp' = "concat"
  /\ UNCHANGED <<rIn, rCallback, rPromise, rTimers>>
  /\ UNCHANGED notRelayVars

\* interpolate(template, rIn)
Interpolate ==
  /\ rOp = "idle"
  /\ \E template \in Templates :
       /\ rArgs' = [rArgs EXCEPT !.template = template]
       /\ rResult' = interpolate(template, rIn)
  /\ rOp' = "interpolate"
  /\ UNCHANGED <<rIn, rCallback, rPromise, rTimers>>
  /\ UNCHANGED notRelayVars

RelayNext ==
  \/ Passthrough \/ ArrayRelay \/ ObjectRelay \/ AsyncRelay \/ TimerFire
  \/ CallbackRelay \/ MultiHopRelay \/ Concat \/ Interpolate \/ JsonRoundTrip
  \/ Base64RoundTrip \/ ArrayOperations \/ ObjectSpread \/ Destructure



vars ==
  <<rIn, rArgs, rOp, rResult, rCallback, rPromise, rTimers,
    cKind, cState, cPc, cSource, cTransformer, cSinks, cCalls, cProm, cAll, cResult,
    cEnv, context, contextProto, sLast, sRuns, sSinkCalls,
    session, files, tasks, effects,
    clients, sockets, microtasks, sessionUser, database>>

SpecRelay == RelayInit /\ [][RelayNext]_vars

\* No run has been started, no relay operator has been called.
ChainInit ==
  /\ cKind = "none"
  /\ cState = "PENDING"
  /\ cPc = "start"
  /\ cSource = Undef
  /\ cTransformer = "none"
  /\ cSinks = <<>>
  /\ cCalls = <<>>
  /\ cProm = <<>>
  /\ cAll = [st |-> "none", val |-> Undef, err |-> ""]
  /\ cResult = NoResult
  /\ cEnv = [rows |-> Arr(<<>>), content |-> Str(<<>>, {})]
  /\ context = Obj(<<>>)
  /\ contextProto = ObjectPrototype
  /\ sLast = NoCall
  /\ sRuns = [r \in Runs |-> NoRun]
  /\ sSinkCalls = <<>>
  /\ session = [sid \in Sessions |-> Undef]
  /\ files = <<>>
  /\ tasks = [t \in Tasks |-> NoTask]
  /\ effects = <<>>
  /\ clients = <<>>
  /\ sockets = [s \in Sockets |-> NoSocket]
  /\ microtasks = <<>>
  /\ sessionUser = [sid \in Sessions |-> Undef]
  /\ database = [mysqlPool |-> 0, mongoClient |-> 0]
  /\ rIn = Undef
  /\ rArgs = NoArgs
  /\ rOp = "idle"
  /\ rResult = NoResult
  /\ rCallback = <<>>
  /\ rPromise = NoPromise
  /\ rTimers = <<>>

\* =================================================== ContextPropagation
KeyProto == <<95, 95, 112, 114, 111, 116, 111, 95, 95>>
KeyConstructor == <<99, 111, 110, 115, 116, 114, 117, 99, 116, 111, 114>>
KeyCss == <<99, 115, 115>>

\* The keys and values the object is called with: a session key, two
\* names Object.prototype defines, and primitives, null and plain objects
\* as values.
StoreKeys == {KeyCss, KeyConstructor, KeyProto}
StoreValues ==
  {Str(TextLs, {"HTTP_BODY"}), Str(<<>>, {}), Undef, Null, WsPayload}

\* What Object.prototype answers for a key, for an object whose prototype
\* is proto: __proto__ is an accessor that answers the prototype,
\* constructor is the function Object.
ObjectPrototypeGet(key, proto) ==
  IF key = KeyProto THEN proto
  ELSE IF key = KeyConstructor THEN ObjectFunction
  ELSE Undef

\* A get that fails with NotFound for a key that is no property of the
\* context.
ContextGet_NotFound(ctx, proto, key) ==
  IF HasOwn(ctx, key) THEN GetOwn(ctx, key)
  ELSE [k |-> "NotFound", p |-> <<>>, l |-> {}]

\* this.context[key]: the own property, or else what the prototype chain
\* answers.  A plain object the prototype was set to has Object.prototype
\* as its own prototype.
ContextGet(ctx, proto, key) ==
  IF HasOwn(ctx, key) THEN GetOwn(ctx, key)
  ELSE IF proto.k = "null" THEN Undef
  ELSE IF proto.k = "proto" THEN ObjectPrototypeGet(key, proto)
  ELSE IF HasOwn(proto, key) THEN GetOwn(proto, key)
  ELSE ObjectPrototypeGet(key, proto)

\* this.context[key] = value.  While the object inherits the accessor
\* __proto__, an assignment to that key runs the setter: it replaces the
\* prototype when the value is an object or null and does nothing for any
\* other value; no property is made.  Every other assignment makes or
\* updates an own property.
ContextSet(ctx, proto, key, value) ==
  IF key = KeyProto /\ ~ HasOwn(ctx, key) /\ proto.k # "null"
       /\ ~ (proto.k = "object" /\ HasOwn(proto, key))
    THEN [context |-> ctx,
          proto |-> IF value.k \in {"object", "null"} THEN value ELSE proto]
  ELSE [context |-> Obj(PutProp(ctx.p, key, value)), proto |-> proto]

\* set(key, value)
CtxSet ==
  /\ \E key \in StoreKeys, value \in StoreValues :
       LET after == ContextSet(context, contextProto, key, value) IN
       /\ context' = after.context
       /\ contextProto' = after.proto
       /\ sLast' = [op |-> "set", key |-> key, val |-> value, res |-> Undef]
  /\ UNCHANGED <<notStoreVars, runVars>>

\* get(key)
CtxGet ==
  /\ \E key \in StoreKeys :
       sLast' = [op |-> "get", key |-> key, val |-> Undef,
                 res |-> ContextGet(context, contextProto, key)]
  /\ UNCHANGED <<context, contextProto>>
  /\ UNCHANGED <<notStoreVars, runVars>>

\* ========================================================= ChainBuilder
\* ---- the capabilities a run is given.  A capability (a sink, a query, a
\* file read) is a function of the caller: it returns a value, throws,
\* or returns a promise that is fulfilled later, rejected later, or never
\* settled.
SinkBehaviours == {"returns", "throws", "resolves", "rejects", "hangs"}
AsyncBehaviours == {"resolves", "rejects", "hangs"}

\* What capability i answers for an argument: "r<i>", made from the argument.
SinkOutput(i, arg) == Str(<<114, 48 + i>>, Labels(arg))
\* The error capability i throws or rejects with.
SinkError(i) == <<"E1", "E2", "E3", "E4", "E5", "E6", "E7", "E8", "E9">>[i]

NoProm == [st |-> "none", val |-> Undef, err |-> ""]
PendingProm == [st |-> "pending", val |-> Undef, err |-> ""]
Fulfilled(v) == [st |-> "fulfilled", val |-> v, err |-> ""]
Rejected(e) == [st |-> "rejected", val |-> Undef, err |-> e]
\* A value that is no promise: await and Promise.all take it as it is.
PlainValue(v) == [st |-> "value", val |-> v, err |-> ""]

\* What the call of capability i with behaviour beh returns, when it does
\* not throw.
Invoke(i, beh, arg) ==
  IF beh = "returns" THEN PlainValue(SinkOutput(i, arg)) ELSE PendingProm

Call(i, arg) == [cap |-> i, arg |-> arg]

IsSettled(pr) == pr.st \in {"fulfilled", "rejected", "value"}
IsFulfilled(pr) == pr.st \in {"fulfilled", "value"}

\* await pr, once pr is settled: the value, or the rejection thrown.
AwaitOutcome_Swallows(pr) == Return(pr.val)

AwaitOutcome(pr) ==
  IF IsFulfilled(pr) THEN Return(pr.val) ELSE Throw(pr.err)

\* An end that puts the run back before its call.
EndState_Pending(result) == "PENDING"

\* The state of an async function's promise once the function has ended
\* with the result: returned or thrown.
EndState(result) == IF result.out = "return" THEN "COMPLETED" ELSE "FAILED"

\* An async function whose promise is never settled.
Finish_NeverSettles(result) ==
  /\ cState' = "RUNNING"
  /\ cResult' = cResult
  /\ cPc' = "done"

\* The async function ends with the result.
Finish(result) ==
  /\ cState' = EndState(result)
  /\ cResult' = result
  /\ cPc' = "done"

\* ---- transformers simpleChain is called with: relays and transforms of
\* the helpers, and a custom function that answers a constant, so that
\* nothing of its input is left.
Transformers == {"passthrough", "multiHopRelay", "concat", "jsonRoundTrip", "strip"}

ApplyTransformer(t, v) ==
  CASE t = "passthrough" -> passthrough(v)
    [] t = "multiHopRelay" -> multiHopRelay(v)
    [] t = "concat" -> concat(Str(<<>>, {}), v, Str(TextLa, {}))
    [] t = "jsonRoundTrip" -> jsonRoundTrip(v)
    [] OTHER -> Return(Str(TextLs, {}))

\* The sources of a run: a labelled string, a literal without labels, the
\* WebSocket payload, undefined.
Sources == {Str(TextLs, {"HTTP_BODY"}), Str(TextLs, {}), WsPayload, Undef}

\* ---- simpleChain(source, transformer, sink)
\* A simpleChain that checks the transformer's result and throws
\* TaintLossError when labels of the source are missing.
simpleChainTransformed_Verified(t, source) ==
  LET r == ApplyTransformer(t, source) IN
  IF r.out = "return" /\ ~ (Labels(source) \subseteq Labels(r.val))
    THEN Throw("TaintLossError") ELSE r

\* const transformed = transformer(source)
simpleChainTransformed(t, source) == ApplyTransformer(t, source)

\* The call: the transformer and the sink are invoked before the function
\* suspends at its await; an exception of either rejects the run.
StartSimple ==
  /\ cState = "PENDING"
  /\ \E source \in Sources, t \in Transformers, beh \in SinkBehaviours :
       LET transformed == simpleChainTransformed(t, source) IN
       /\ cKind' = "simpleChain"
       /\ cSource' = source
       /\ cTransformer' = t
       /\ cSinks' = <<beh>>
       /\ IF transformed.out = "throw"
            THEN /\ Finish(transformed)
                 /\ cCalls' = cCalls
                 /\ cProm' = <<NoProm>>
          ELSE /\ cCalls' = Append(cCalls, Call(1, transformed.val))
               /\ IF beh = "throws"
                    THEN /\ Finish(Throw(SinkError(1)))
                         /\ cProm' = <<NoProm>>
                  ELSE /\ cProm' = <<Invoke(1, beh, transformed.val)>>
                       /\ cState' = "RUNNING"
                       /\ cPc' = "await_sink"
                       /\ cResult' = cResult
  /\ UNCHANGED <<cAll, cEnv>>
  /\ UNCHANGED notChainVars

\* return await sink(transformed): the continuation after the await.
ResumeSimple ==
  /\ cKind = "simpleChain" /\ cPc = "await_sink"
  /\ IsSettled(cProm[1])
  /\ Finish(AwaitOutcome(cProm[1]))
  /\ UNCHANGED <<cKind, cSource, cTransformer, cSinks, cCalls, cProm, cAll, cEnv>>
  /\ UNCHANGED notChainVars

\* ---- parallelSinks(source, sinks)
\* The index of the first sink that throws when called, 0 when none does.
FirstThrowing(behs) ==
  LET ts == {i \in 1..Len(behs) : behs[i] = "throws"} IN
  IF ts = {} THEN 0 ELSE CHOOSE i \in ts : \A j \in ts : i <= j

\* Promise.all over the promises: rejected with the first rejection,
\* fulfilled with the array of all values once every one is fulfilled.
AllAfter(all, proms, i) ==
  IF all.st # "pending" THEN all
  ELSE IF proms[i].st = "rejected" THEN Rejected(proms[i].err)
  ELSE IF \A j \in 1..Len(proms) : IsFulfilled(proms[j])
    THEN Fulfilled(Arr([j \in 1..Len(proms) |-> proms[j].val]))
  ELSE all

\* sinks.map(sink => sink(source)): the sinks are called in list order; a
\* sink that throws ends map, and with it the run, before the sinks after
\* it are called.
StartParallel ==
  /\ cState = "PENDING"
  /\ \E source \in Sources, n \in 1..MaxSinks :
     \E behs \in [1..n -> SinkBehaviours] :
       LET k == FirstThrowing(behs)
           m == IF k = 0 THEN n ELSE k
           proms == [i \in 1..n |->
                       IF i <= m /\ i # k THEN Invoke(i, behs[i], source) ELSE NoProm]
       IN
       /\ cKind' = "parallelSinks"
       /\ cSource' = source
       /\ cSinks' = behs
       /\ cCalls' = cCalls \o [i \in 1..m |-> Call(i, source)]
       /\ cProm' = proms
       /\ IF k # 0
            THEN /\ Finish(Throw(SinkError(k)))
                 /\ cAll' = cAll
          ELSE /\ cState' = "RUNNING"
               /\ cPc' = "await_all"
               /\ cResult' = cResult
               /\ cAll' = AllAfter(PendingProm, proms, 1)
  /\ UNCHANGED <<cTransformer, cEnv>>
  /\ UNCHANGED notChainVars

\* return await Promise.all(...): the continuation after the await.
ResumeParallel ==
  /\ cKind = "parallelSinks" /\ cPc = "await_all"
  /\ IsSettled(cAll)
  /\ Finish(AwaitOutcome(cAll))
  /\ UNCHANGED <<cKind, cSource, cTransformer, cSinks, cCalls, cProm, cAll, cEnv>>
  /\ UNCHANGED notChainVars

\* ---- sequentialSinks(source, sink1, sink2)
StartSequential ==
  /\ cState = "PENDING"
  /\ \E source \in Sources, behs \in [1..2 -> SinkBehaviours] :
       /\ cKind' = "sequentialSinks"
       /\ cSource' = source
       /\ cSinks' = behs
       /\ cCalls' = Append(cCalls, Call(1, source))
       /\ IF behs[1] = "throws"
            THEN /\ Finish(Throw(SinkError(1)))
                 /\ cProm' = <<NoProm, NoProm>>
          ELSE /\ cProm' = <<Invoke(1, behs[1], source), NoProm>>
               /\ cState' = "RUNNING"
               /\ cPc' = "await_sink1"
               /\ cResult' = cResult
  /\ UNCHANGED <<cTransformer, cAll, cEnv>>
  /\ UNCHANGED notChainVars

\* A sequentialSinks that goes on to sink2 whatever sink1's outcome.
sequentialContinues_Always(outcome1) == TRUE

\* const result1 = await sink1(source): a rejection is thrown at the await
\* and ends the function; only a value lets it go on.
sequentialContinues(outcome1) == outcome1.out = "return"

\* A sequentialSinks that hands the source to sink2.
sequentialSecondArg_Source(source, result1) == source

\* sink2(result1): what sink2 is called with.
sequentialSecondArg(source, result1) == result1

\* The continuation after the first await: sink2(result1).
ResumeSequential1 ==
  /\ cKind = "sequentialSinks" /\ cPc = "await_sink1"
  /\ IsSettled(cProm[1])
  /\ LET result1 == AwaitOutcome(cProm[1]) IN
     IF ~ sequentialContinues(result1)
       THEN /\ Finish(result1)
            /\ UNCHANGED <<cCalls, cProm>>
     ELSE /\ cCalls' = Append(cCalls, Call(2, sequentialSecondArg(cSource, result1.val)))
          /\ IF cSinks[2] = "throws"
               THEN /\ Finish(Throw(SinkError(2)))
                    /\ cProm' = cProm
             ELSE /\ cProm' = [cProm EXCEPT ![2] =
                                 Invoke(2, cSinks[2],
                                        sequentialSecondArg(cSource, result1.val))]
                  /\ cPc' = "await_sink2"
                  /\ UNCHANGED <<cState, cResult>>
  /\ UNCHANGED <<cKind, cSource, cTransformer, cSinks, cAll, cEnv>>
  /\ UNCHANGED notChainVars

\* The continuation after the second await.
ResumeSequential2 ==
  /\ cKind = "sequentialSinks" /\ cPc = "await_sink2"
  /\ IsSettled(cProm[2])
  /\ Finish(AwaitOutcome(cProm[2]))
  /\ UNCHANGED <<cKind, cSource, cTransformer, cSinks, cCalls, cProm, cAll, cEnv>>
  /\ UNCHANGED notChainVars

\* ---- mergedSources(sources, merger, sink)
\* The sources that are merged: a query parameter, a header, a literal.
MergeSources ==
  {Str(<<108>>, {"HTTP_QUERY"}), Str(<<115>>, {"HTTP_HEADER"}), Str(<<32>>, {})}

\* The i-th argument of a call with the arguments args: undefined when
\* there are fewer.
ArgAt(args, i) == IF i <= Len(args) THEN args[i] ELSE Undef

\* A mergedSources that hands only the first source to the merger.
mergedSourcesMerged_FirstOnly(merger, sources) ==
  concat(ArgAt(sources, 1), Undef, Undef)

\* const merged = merger(...sources), for the merger TaintTransform.concat:
\* concat(prefix, taintedData, suffix) binds the first three arguments.
mergedSourcesMerged(merger, sources) ==
  concat(ArgAt(sources, 1), ArgAt(sources, 2), ArgAt(sources, 3))

\* The call: the merger and the sink are invoked before the function
\* suspends at its await.
StartMerged ==
  /\ cState = "PENDING"
  /\ \E n \in 1..MaxSources, beh \in SinkBehaviours :
     \E sources \in [1..n -> MergeSources] :
       LET merged == mergedSourcesMerged("concat", sources).val IN
       /\ cKind' = "mergedSources"
       /\ cSource' = Arr(sources)
       /\ cTransformer' = "concat"
       /\ cSinks' = <<beh>>
       /\ cCalls' = Append(cCalls, Call(1, merged))
       /\ IF beh = "throws"
            THEN /\ Finish(Throw(SinkError(1)))
                 /\ cProm' = <<NoProm>>
          ELSE /\ cProm' = <<Invoke(1, beh, merged)>>
               /\ cState' = "RUNNING"
               /\ cPc' = "await_sink"
               /\ cResult' = cResult
  /\ UNCHANGED <<cAll, cEnv>>
  /\ UNCHANGED notChainVars

\* return await sink(merged): the continuation after the await.
ResumeMerged ==
  /\ cKind = "mergedSources" /\ cPc = "await_sink"
  /\ IsSettled(cProm[1])
  /\ Finish(AwaitOutcome(cProm[1]))
  /\ UNCHANGED <<cKind, cSource, cTransformer, cSinks, cCalls, cProm, cAll, cEnv>>
  /\ UNCHANGED notChainVars

\* ---- complexChain(httpData, dbConnection)
KeyConfigName == <<99, 111, 110, 102, 105, 103, 78, 97, 109, 101>>
KeyArgs == <<97, 114, 103, 115>>
KeyFilePath == <<102, 105, 108, 101, 95, 112, 97, 116, 104>>
KeyCommand == <<99, 111, 109, 109, 97, 110, 100>>

\* httpData: {configName: "l", args: " -la"}, from the request body.
HttpData ==
  Obj(<<Prop(KeyConfigName, Str(<<108>>, {"HTTP_BODY"})),
        Prop(KeyArgs, Str(TextLa, {"HTTP_BODY"}))>>)

\* The database answers no row or one row {file_path: "l"}; the file holds
\* {"command":"ls"}, or null, or a text that is no JSON.
DbRows == {Arr(<<>>), Arr(<<Obj(<<Prop(KeyFilePath, Str(<<108>>, {}))>>)>>)}
FileContents ==
  {JsonStringify(Obj(<<Prop(KeyCommand, Str(TextLs, {}))>>)), Str(TextNull, {}),
   Str(<<108>>, {})}

\* Step 1: queryBuilder.findByField('configs', 'name', httpData.configName),
\* an async function: it fails by rejecting.
StartComplex ==
  /\ cState = "PENDING"
  /\ \E db \in AsyncBehaviours, file \in {"returns", "throws"}, cmd \in AsyncBehaviours,
        rows \in DbRows, content \in FileContents :
       /\ cSinks' = <<db, file, cmd>>
       /\ cEnv' = [rows |-> rows, content |-> content]
  /\ cKind' = "complexChain"
  /\ cSource' = HttpData
  /\ cCalls' = Append(cCalls, Call(1, GetProp(HttpData, KeyConfigName)))
  /\ cProm' = <<PendingProm, NoProm, NoProm>>
  /\ cState' = "RUNNING"
  /\ cPc' = "await_db"
  /\ UNCHANGED <<cTransformer, cAll, cResult>>
  /\ UNCHANGED notChainVars

\* dbResults[0]?.file_path
FirstFilePath(dbResults) ==
  IF Len(dbResults.p) = 0 THEN Undef ELSE GetProp(dbResults.p[1], KeyFilePath)

\* JSON.parse(fileContent).command: reading a property of null throws.
CommandOf(fileContent) ==
  LET parsed == JsonParse(fileContent) IN
  IF parsed.out = "throw" THEN parsed
  ELSE IF parsed.val.k = "null" THEN Throw("TypeError")
  ELSE Return(GetProp(parsed.val, KeyCommand))

\* CommandOf on each content the file can hold.
CommandOfContent == [content \in FileContents |-> CommandOf(content)]

\* The continuation after the query: steps 2 and 3, up to the await of
\* executeCommand.  readFile is synchronous: it returns the content or
\* throws.
ResumeComplexDb ==
  /\ cKind = "complexChain" /\ cPc = "await_db"
  /\ IsSettled(cProm[1])
  /\ LET dbResults == AwaitOutcome(cProm[1]) IN
     IF dbResults.out = "throw"
       THEN /\ Finish(dbResults)
            /\ UNCHANGED <<cCalls, cProm>>
     ELSE LET filePath == FirstFilePath(dbResults.val)
              command == CommandOfContent[cEnv.content]
              line == concat(Str(<<>>, {}), command.val,
                             Str(<<32>> \o JsToString(GetProp(cSource, KeyArgs)).p,
                                 JsToString(GetProp(cSource, KeyArgs)).l)).val
          IN IF cSinks[2] = "throws"
               THEN /\ cCalls' = Append(cCalls, Call(2, filePath))
                    /\ Finish(Throw(SinkError(2)))
                    /\ cProm' = cProm
             ELSE IF command.out = "throw"
               THEN /\ cCalls' = Append(cCalls, Call(2, filePath))
                    /\ Finish(command)
                    /\ cProm' = [cProm EXCEPT ![2] = PlainValue(cEnv.content)]
             ELSE /\ cCalls' = cCalls \o <<Call(2, filePath), Call(3, line)>>
                  /\ cProm' = [cProm EXCEPT ![2] = PlainValue(cEnv.content),
                                            ![3] = PendingProm]
                  /\ cPc' = "await_cmd"
                  /\ UNCHANGED <<cState, cResult>>
  /\ UNCHANGED <<cKind, cSource, cTransformer, cSinks, cAll, cEnv>>
  /\ UNCHANGED notChainVars

\* return await CommandSink.executeCommand(...): the continuation.
ResumeComplexCmd ==
  /\ cKind = "complexChain" /\ cPc = "await_cmd"
  /\ IsSettled(cProm[3])
  /\ Finish(AwaitOutcome(cProm[3]))
  /\ UNCHANGED <<cKind, cSource, cTransformer, cSinks, cCalls, cProm, cAll, cEnv>>
  /\ UNCHANGED notChainVars

\* ---- the capabilities answer
\* The promise capability i returned is fulfilled or rejected, as the
\* capability behaves; the promise of a capability that never answers
\* stays pending.  Promise.all follows.
SinkSettle ==
  \E i \in 1..Len(cProm) :
    /\ cProm[i].st = "pending"
    /\ cSinks[i] \in {"resolves", "rejects"}
    /\ LET arg == cCalls[CHOOSE n \in 1..Len(cCalls) : cCalls[n].cap = i].arg
           proms == [cProm EXCEPT ![i] =
                       IF cSinks[i] # "resolves" THEN Rejected(SinkError(i))
                       ELSE IF cKind = "complexChain" /\ i = 1 THEN Fulfilled(cEnv.rows)
                       ELSE Fulfilled(SinkOutput(i, arg))]
       IN /\ cProm' = proms
          /\ cAll' = IF cKind = "parallelSinks" THEN AllAfter(cAll, proms, i) ELSE cAll
    /\ UNCHANGED <<cKind, cState, cPc, cSource, cTransformer, cSinks, cCalls, cResult, cEnv>>
    /\ UNCHANGED notChainVars

ChainNext ==
  \/ StartSimple \/ ResumeSimple
  \/ StartParallel \/ ResumeParallel
  \/ StartSequential \/ ResumeSequential1 \/ ResumeSequential2
  \/ StartComplex \/ ResumeComplexDb \/ ResumeComplexCmd
  \/ StartMerged \/ ResumeMerged
  \/ SinkSettle

SpecChain == ChainInit /\ [][ChainNext]_vars

\* ---- the methods of ContextPropagation that use a sink
\* The contexts the calls start from: the new object, and the object
\* after set('css', 'ls') with a value of the request body.
SeedContexts == {Obj(<<>>), Obj(<<Prop(KeyCss, Str(TextLs, {"HTTP_BODY"}))>>)}

RunsInit ==
  /\ context \in SeedContexts
  /\ contextProto = ObjectPrototype
  /\ sLast = NoCall
  /\ sRuns = [r \in Runs |-> NoRun]
  /\ sSinkCalls = <<>>
  /\ session = [sid \in Sessions |-> Undef]
  /\ files = <<>>
  /\ tasks = [t \in Tasks |-> NoTask]
  /\ effects = <<>>
  /\ clients = <<>>
  /\ sockets = [s \in Sockets |-> NoSocket]
  /\ microtasks = <<>>
  /\ sessionUser = [sid \in Sessions |-> Undef]
  /\ database = [mysqlPool |-> 0, mongoClient |-> 0]
  /\ cKind = "none"
  /\ cState = "PENDING"
  /\ cPc = "start"
  /\ cSource = Undef
  /\ cTransformer = "none"
  /\ cSinks = <<>>
  /\ cCalls = <<>>
  /\ cProm = <<>>
  /\ cAll = [st |-> "none", val |-> Undef, err |-> ""]
  /\ cResult = NoResult
  /\ cEnv = [rows |-> Arr(<<>>), content |-> Str(<<>>, {})]
  /\ rIn = Undef
  /\ rArgs = NoArgs
  /\ rOp = "idle"
  /\ rResult = NoResult
  /\ rCallback = <<>>
  /\ rPromise = NoPromise
  /\ rTimers = <<>>

\* A sink invocation: the call that made it, the sink, the value it was
\* given, and whether the key the value was read from was a property of
\* the context at the time.
SinkCall(r, sink, arg, had) == [run |-> r, sink |-> sink, arg |-> arg, had |-> had]

\* The record of this.get(key) and of this.set(key, value).
GetCall(key) ==
  [op |-> "get", key |-> key, val |-> Undef,
   res |-> ContextGet(context, contextProto, key)]
SetCall(key, value) == [op |-> "set", key |-> key, val |-> value, res |-> Undef]

\* The call has ended with the result.
RunDone(r, result) ==
  [sRuns[r] EXCEPT !.pc = "done", !.result = result]

\* A method that hands a value it read to its sink only when the value is
\* not undefined.
contextSinkInvoked_Checked(value) == value.k # "undefined"

\* executeFromContext and renderFromContext pass what this.get returned to
\* the sink, whatever it is.
contextSinkInvoked(value) == TRUE

\* chainThroughContext(inputKey, outputKey, sink), up to its await:
\* const input = this.get(inputKey); sink(input).
StartChainThrough(r) ==
  /\ sRuns[r].pc = "idle"
  /\ \E inKey \in StoreKeys, outKey \in StoreKeys, beh \in SinkBehaviours :
       LET input == ContextGet(context, contextProto, inKey)
           run == [NoRun EXCEPT !.kind = "chainThroughContext", !.inKey = inKey,
                                !.outKey = outKey, !.input = input, !.beh = beh]
       IN
       /\ sSinkCalls' = Append(sSinkCalls, SinkCall(r, "sink", input, HasOwn(context, inKey)))
       /\ sLast' = GetCall(inKey)
       /\ sRuns' = [sRuns EXCEPT ![r] =
            IF beh = "throws"
              THEN [run EXCEPT !.pc = "done", !.result = Throw(SinkError(r))]
            ELSE [run EXCEPT !.pc = "await", !.prom = Invoke(r, beh, input)]]
  /\ UNCHANGED <<context, contextProto>>
  /\ UNCHANGED notStoreVars

\* The continuation of chainThroughContext: this.set(outputKey, result);
\* return result.  A rejection of the sink is thrown at the await.
ResumeChainThrough(r) ==
  /\ sRuns[r].kind = "chainThroughContext" /\ sRuns[r].pc = "await"
  /\ IsSettled(sRuns[r].prom)
  /\ LET result == AwaitOutcome(sRuns[r].prom)
         after == ContextSet(context, contextProto, sRuns[r].outKey, result.val)
     IN IF result.out = "throw"
          THEN /\ sRuns' = [sRuns EXCEPT ![r] = RunDone(r, result)]
               /\ UNCHANGED <<context, contextProto, sLast>>
        ELSE /\ context' = after.context
             /\ contextProto' = after.proto
             /\ sLast' = SetCall(sRuns[r].outKey, result.val)
             /\ sRuns' = [sRuns EXCEPT ![r] = RunDone(r, result)]
  /\ UNCHANGED sSinkCalls
  /\ UNCHANGED notStoreVars

\* executeFromContext(commandKey), up to its await.  executeCommand is an
\* async function: it fails by rejecting, and it rejects (TypeError of
\* exec) when the command is not a string.
StartExecute(r) ==
  /\ sRuns[r].pc = "idle"
  /\ \E key \in StoreKeys, beh \in AsyncBehaviours :
       LET command == ContextGet(context, contextProto, key) IN
       /\ sLast' = GetCall(key)
       /\ sSinkCalls' =
            IF contextSinkInvoked(command)
              THEN Append(sSinkCalls,
                          SinkCall(r, "executeCommand", command, HasOwn(context, key)))
            ELSE sSinkCalls
       /\ sRuns' = [sRuns EXCEPT ![r] =
            [NoRun EXCEPT !.kind = "executeFromContext", !.inKey = key,
                          !.input = command, !.pc = "await",
                          !.beh = IF command.k = "string" THEN beh ELSE "rejects",
                          !.prom = PendingProm]]
  /\ UNCHANGED <<context, contextProto>>
  /\ UNCHANGED notStoreVars

\* return await CommandSink.executeCommand(command): the continuation.
ResumeExecute(r) ==
  /\ sRuns[r].kind = "executeFromContext" /\ sRuns[r].pc = "await"
  /\ IsSettled(sRuns[r].prom)
  /\ sRuns' = [sRuns EXCEPT ![r] = RunDone(r, AwaitOutcome(sRuns[r].prom))]
  /\ UNCHANGED <<context, contextProto, sLast, sSinkCalls>>
  /\ UNCHANGED notStoreVars

\* renderFromContext(templateKey, contextKey): synchronous.  ejs.render
\* returns the rendered text or throws, and it throws when the template
\* is not a string.
RenderFromContext(r) ==
  /\ sRuns[r].pc = "idle"
  /\ \E templateKey \in StoreKeys, contextKey \in StoreKeys, beh \in {"returns", "throws"} :
       LET template == ContextGet(context, contextProto, templateKey)
           ctx == ContextGet(context, contextProto, contextKey)
           args == Arr(<<template, ctx>>)
           does == IF template.k = "string" THEN beh ELSE "throws"
       IN
       /\ sLast' = GetCall(contextKey)
       /\ sSinkCalls' =
            IF contextSinkInvoked(template)
              THEN Append(sSinkCalls,
                          SinkCall(r, "renderEjs", args,
                                   HasOwn(context, templateKey) /\ HasOwn(context, contextKey)))
            ELSE sSinkCalls
       /\ sRuns' = [sRuns EXCEPT ![r] =
            [NoRun EXCEPT !.kind = "renderFromContext", !.inKey = templateKey,
                          !.outKey = contextKey, !.input = args, !.beh = does,
                          !.pc = "done",
                          !.result = IF does = "throws" THEN Throw(SinkError(r))
                                     ELSE Return(SinkOutput(r, args))]]
  /\ UNCHANGED <<context, contextProto>>
  /\ UNCHANGED notStoreVars

\* The sink of a call answers: its promise is fulfilled or rejected.
RunSinkSettle(r) ==
  /\ sRuns[r].prom.st = "pending"
  /\ sRuns[r].beh \in {"resolves", "rejects"}
  /\ sRuns' = [sRuns EXCEPT ![r].prom =
       IF sRuns[r].beh = "resolves" THEN Fulfilled(SinkOutput(r, sRuns[r].input))
       ELSE Rejected(SinkError(r))]
  /\ UNCHANGED <<context, contextProto, sLast, sSinkCalls>>
  /\ UNCHANGED notStoreVars

RunsNext ==
  \E r \in Runs :
    \/ StartChainThrough(r) \/ ResumeChainThrough(r)
    \/ StartExecute(r) \/ ResumeExecute(r)
    \/ RenderFromContext(r)
    \/ RunSinkSettle(r)

SpecStoreRuns == RunsInit /\ [][RunsNext]_vars

\* A ContextPropagation object from its construction on.
StoreNext == CtxSet \/ CtxGet

SpecStore == ChainInit /\ [][StoreNext]_vars

\* The event loop runs every continuation whose promise is settled, and a
\* capability that answers does answer.
SpecChainFair ==
  /\ SpecChain
  /\ WF_vars(ResumeSimple) /\ WF_vars(ResumeParallel)
  /\ WF_vars(ResumeSequential1) /\ WF_vars(ResumeSequential2)
  /\ WF_vars(ResumeComplexDb) /\ WF_vars(ResumeComplexCmd)
  /\ WF_vars(ResumeMerged)
  /\ WF_vars(SinkSettle)

\* ======================================================= UserDataService
KeyTheme == <<116, 104, 101, 109, 101>>
KeyCustomCss == <<99, 117, 115, 116, 111, 109, 67, 115, 115>>
KeyCallbackUrl == <<99, 97, 108, 108, 98, 97, 99, 107, 85, 114, 108>>
KeyExportPath == <<101, 120, 112, 111, 114, 116, 80, 97, 116, 104>>
TextStyleOpen == <<60, 115, 116, 121, 108, 101, 62>>
TextStyleClose == <<60, 47, 115, 116, 121, 108, 101, 62>>

\* The preferences of a request body: a customCss that is a string, an
\* empty string or an object, with or without a callbackUrl or an
\* exportPath.
PrefInputs ==
  {Obj(<<Prop(KeyCustomCss, Str(<<108>>, {"HTTP_BODY"}))>>),
   Obj(<<Prop(KeyCustomCss, Str(<<>>, {}))>>),
   Obj(<<Prop(KeyCustomCss, WsPayload)>>),
   Obj(<<Prop(KeyCustomCss, Str(<<108>>, {"HTTP_BODY"})),
         Prop(KeyCallbackUrl, Str(<<117>>, {"HTTP_BODY"}))>>),
   Obj(<<Prop(KeyCustomCss, Str(<<108>>, {"HTTP_BODY"})),
         Prop(KeyExportPath, Str(<<101>>, {"HTTP_BODY"}))>>)}

\* A call of a sink, a store or a reply, as the log of effects keeps it.
Effect(t, sink, sid, arg) == [task |-> t, sink |-> sink, sid |-> sid, arg |-> arg]

\* The positions of the log at which the sink was called.
EffectsOf(sink) == {n \in 1..Len(effects) : effects[n].sink = sink}

\* The calls are numbered as they start: task t is the next to start when
\* it has not started and every task before it has.
IsNextTask(t) ==
  /\ tasks[t].pc = "idle"
  /\ \A u \in Tasks : u < t => tasks[u].pc # "idle"

\* A task at its await: the promise is pending, got is what the awaited
\* capability answers if it answers.
Awaiting(task, pc, got) ==
  [task EXCEPT !.pc = pc, !.prom = PendingProm, !.got = got]
Ended(task, result) == [task EXCEPT !.pc = "done", !.result = result]

\* The capability a task awaits answers as the head of behs says.
TaskSettle(t) ==
  /\ tasks[t].prom.st = "pending"
  /\ Head(tasks[t].behs) \in {"resolves", "rejects"}
  /\ tasks' = [tasks EXCEPT ![t].prom =
       IF Head(tasks[t].behs) = "resolves" THEN Fulfilled(tasks[t].got)
       ELSE Rejected(SinkError(t))]
  /\ UNCHANGED <<session, files, effects>>
  /\ UNCHANGED notSvcVars

\* A storeUserPreferences that does not keep customCss.
userPrefsOf_NoCss(preferences) ==
  Obj(<<Prop(KeyTheme, GetProp(preferences, KeyTheme)),
        Prop(KeyCustomCss, Undef),
        Prop(KeyCallbackUrl, GetProp(preferences, KeyCallbackUrl)),
        Prop(KeyExportPath, GetProp(preferences, KeyExportPath))>>)

\* The object storeUserPreferences assigns to session.userPrefs.
userPrefsOf(preferences) ==
  Obj(<<Prop(KeyTheme, GetProp(preferences, KeyTheme)),
        Prop(KeyCustomCss, GetProp(preferences, KeyCustomCss)),
        Prop(KeyCallbackUrl, GetProp(preferences, KeyCallbackUrl)),
        Prop(KeyExportPath, GetProp(preferences, KeyExportPath))>>)

\* storeUserPreferences(session, preferences)
StorePrefs ==
  /\ Cardinality(EffectsOf("storeUserPreferences")) < MaxStores
  /\ \E sid \in Sessions, preferences \in PrefInputs :
       /\ session' = [session EXCEPT ![sid] = userPrefsOf(preferences)]
       /\ effects' = Append(effects, Effect(0, "storeUserPreferences", sid, preferences))
  /\ UNCHANGED <<files, tasks>>
  /\ UNCHANGED notSvcVars

\* `<style>${prefs.customCss}</style>`
StyleTag(css) == concat(Str(TextStyleOpen, {}), css, Str(TextStyleClose, {})).val

\* applyUserPreferences(session, res), up to its await of sendWebhook.
ApplyPrefs(t) ==
  /\ IsNextTask(t)
  /\ \E sid \in Sessions, beh \in AsyncBehaviours :
       LET prefs == session[sid]
           css == GetProp(prefs, KeyCustomCss)
           url == GetProp(prefs, KeyCallbackUrl)
           task == [NoTask EXCEPT !.kind = "applyUserPreferences", !.sid = sid,
                                  !.arg = prefs]
       IN IF ~ Truthy(prefs)
            THEN /\ tasks' = [tasks EXCEPT ![t] = Ended(task, Return(Undef))]
                 /\ effects' = effects
          ELSE /\ effects' =
                    effects
                      \o (IF Truthy(css) THEN <<Effect(t, "res.write", sid, StyleTag(css))>>
                          ELSE <<>>)
                      \o (IF Truthy(url) THEN <<Effect(t, "sendWebhook", sid, url)>>
                          ELSE <<>>)
               /\ tasks' = [tasks EXCEPT ![t] =
                    IF Truthy(url)
                      THEN Awaiting([task EXCEPT !.behs = <<beh>>], "await", Num(200, {}))
                    ELSE Ended(task, Return(Undef))]
  /\ UNCHANGED <<session, files>>
  /\ UNCHANGED notSvcVars

\* The continuation of applyUserPreferences after sendWebhook.
ResumeApply(t) ==
  /\ tasks[t].kind = "applyUserPreferences" /\ tasks[t].pc = "await"
  /\ IsSettled(tasks[t].prom)
  /\ tasks' = [tasks EXCEPT ![t] =
       Ended(tasks[t], IF IsFulfilled(tasks[t].prom) THEN Return(Undef)
                       ELSE AwaitOutcome(tasks[t].prom))]
  /\ UNCHANGED <<session, files, effects>>
  /\ UNCHANGED notSvcVars

\* ============================================ sinks, services and routes
TextDataDir == <<47, 118, 97, 114, 47, 97, 112, 112, 47, 100, 97, 116, 97, 47>>
KeyFetched == <<102, 101, 116, 99, 104, 101, 100>>
KeyStored == <<115, 116, 111, 114, 101, 100>>
KeySaved == <<115, 97, 118, 101, 100>>
KeyProcessed == <<112, 114, 111, 99, 101, 115, 115, 101, 100>>
KeyStdout == <<115, 116, 100, 111, 117, 116>>
KeyStderr == <<115, 116, 100, 101, 114, 114>>
KeyError == <<101, 114, 114, 111, 114>>
KeyResult == <<114, 101, 115, 117, 108, 116>>
KeyUrl == <<117, 114, 108>>
KeySavePath == <<115, 97, 118, 101, 80, 97, 116, 104>>
KeyPostProcess == <<112, 111, 115, 116, 80, 114, 111, 99, 101, 115, 115>>
KeyCommandToRun == <<99, 111, 109, 109, 97, 110, 100, 84, 111, 82, 117, 110>>
TextSaved == <<115, 97, 118, 101, 100>>
TextProcessData == <<112, 114, 111, 99, 101, 115, 115, 95, 100, 97, 116, 97, 32, 34>>
TextQuoteAnd == <<34, 32, 38, 38, 32>>
TextSpaceQuote == <<32, 34>>
TextQuote == <<34>>

\* error.message of the errors of the model.
MessageText ==
  [E1 |-> <<69, 49>>, E2 |-> <<69, 50>>, TypeError |-> <<84, 121, 112, 101, 69, 114, 114, 111, 114>>, ENOENT |-> <<69, 78, 79, 69, 78, 84>>,
   SyntaxError |-> <<83, 121, 110, 116, 97, 120, 69, 114, 114, 111, 114>>]
ErrorBody(e) == Obj(<<Prop(KeyError, Str(MessageText[e], {}))>>)

\* The request bodies of the model.
Urls == {Str(<<117>>, {"HTTP_BODY"})}
Paths == {Str(<<102>>, {"HTTP_BODY"}), Str(<<103>>, {"HTTP_BODY"})}
PostProcesses == {Undef, Str(<<112>>, {"HTTP_BODY"})}
CommandsToRun == {Str(<<99>>, {"HTTP_BODY"})}
CallbackUrls == Urls \cup {Undef}

\* response.data of axios.get(url): a text body, or a parsed JSON body.
FetchedData(url) ==
  {Str(<<100>>, Labels(url)), Obj(<<Prop(KeyA, Str(<<100>>, Labels(url)))>>)}

\* What execPromise(command) resolves with.
ExecOutput(command) ==
  Obj(<<Prop(KeyStdout, Str(<<111>>, Labels(command))), Prop(KeyStderr, Str(<<>>, {}))>>)

\* '/var/app/data/' + filename
WritePath(filename) == concat(Str(TextDataDir, {}), filename, Str(<<>>, {})).val

\* The files of the disk are a sequence of [path, content], one per path.
FileIndex(fs, path) ==
  LET hits == {i \in 1..Len(fs) : fs[i].path = path}
  IN IF hits = {} THEN 0 ELSE CHOOSE i \in hits : TRUE
FileWrite(fs, path, content) ==
  IF FileIndex(fs, path) = 0 THEN Append(fs, [path |-> path, content |-> content])
  ELSE [fs EXCEPT ![FileIndex(fs, path)].content = content]
FileRemove(fs, path) == SelectSeq(fs, LAMBDA f : f.path # path)

\* What fs.writeFileSync does for the content: data that is no string (and
\* no buffer) is a TypeError, and the disk may refuse the write.
DiskBehaviours == {"writes", "fails"}
WriteOutcome(content, disk) ==
  IF content.k # "string" THEN Throw("TypeError")
  ELSE IF disk = "fails" THEN Throw("ENOENT")
  ELSE Return(Undef)

\* PathTraversalSink.writeFile(filename, content): the entry of the log, the
\* files afterwards and what the call returns or throws.
writeFileEffect(t, filename, content, disk) ==
  Effect(t, IF WriteOutcome(content, disk).out = "return" THEN "writeFile"
            ELSE "writeFile throws", 0,
         Arr(<<WritePath(filename), content>>))
writeFileFiles(fs, filename, content, disk) ==
  IF WriteOutcome(content, disk).out = "return"
    THEN FileWrite(fs, WritePath(filename).p, content)
  ELSE fs
writeFile(filename, content, disk) ==
  IF WriteOutcome(content, disk).out = "return" THEN Return(WritePath(filename))
  ELSE WriteOutcome(content, disk)

\* PathTraversalSink.readFile(filename): the content of the file, or the
\* error of a file that does not exist.
readFile(fs, filename) ==
  IF FileIndex(fs, WritePath(filename).p) = 0 THEN Throw("ENOENT")
  ELSE Return(fs[FileIndex(fs, WritePath(filename).p)].content)

\* ---- the other sinks of FileSink.js
TextUploadsDir == <<47, 118, 97, 114, 47, 97, 112, 112, 47, 117, 112, 108, 111, 97, 100, 115>>
TextAppDir == <<47, 118, 97, 114, 47, 97, 112, 112>>

RECURSIVE NormalizeSegments(_, _)
\* The segments of a normalized absolute path: an empty segment and "."
\* are dropped, ".." drops the segment before it and is dropped at the root.
NormalizeSegments(segs, acc) ==
  IF segs = <<>> THEN acc
  ELSE NormalizeSegments(Tail(segs),
         IF Head(segs) = <<>> \/ Head(segs) = <<46>> THEN acc
         ELSE IF Head(segs) = <<46, 46>>
           THEN (IF acc = <<>> THEN acc ELSE SubSeq(acc, 1, Len(acc) - 1))
         ELSE Append(acc, Head(segs)))

\* path.normalize(path) for an absolute path: a trailing separator is kept.
PathNormalize(path) ==
  LET body == JoinWith(NormalizeSegments(Split(path, 47), <<>>), <<47>>)
  IN <<47>> \o body
       \o (IF body # <<>> /\ path[Len(path)] = 47 THEN <<47>> ELSE <<>>)

\* path.join(dir, name) for an absolute directory: a name that is no string
\* is a TypeError, an empty name adds nothing.
pathJoin(dir, name) ==
  IF name.k # "string" THEN Throw("TypeError")
  ELSE Return(Str(PathNormalize(IF name.p = <<>> THEN dir ELSE dir \o <<47>> \o name.p),
                  name.l))

\* The directories /var/app/uploads and /var/app, and the directories
\* listDirectory reads, are none of the files the model keeps: what fs
\* does there is the disk's choice, "writes" when the call succeeds and
\* "fails" when it throws.
\* PathTraversalSink.deleteFile(filename)
deleteFile(filename, disk) ==
  IF pathJoin(TextUploadsDir, filename).out = "throw"
    THEN pathJoin(TextUploadsDir, filename)
  ELSE IF disk = "fails" THEN Throw("ENOENT")
  ELSE Return(JsTrue)

\* PathTraversalSink.copyFile(src, dest)
copyFile(src, dest, disk) ==
  IF pathJoin(TextUploadsDir, src).out = "throw" THEN pathJoin(TextUploadsDir, src)
  ELSE IF pathJoin(TextUploadsDir, dest).out = "throw" THEN pathJoin(TextUploadsDir, dest)
  ELSE IF disk = "fails" THEN Throw("ENOENT")
  ELSE Return(pathJoin(TextUploadsDir, dest).val)

\* PathTraversalSink.moveFile(oldPath, newPath)
moveFile(oldPath, newPath, disk) ==
  IF pathJoin(TextAppDir, oldPath).out = "throw" THEN pathJoin(TextAppDir, oldPath)
  ELSE IF pathJoin(TextAppDir, newPath).out = "throw" THEN pathJoin(TextAppDir, newPath)
  ELSE IF disk = "fails" THEN Throw("ENOENT")
  ELSE Return(JsTrue)

\* PathTraversalSink.listDirectory(dirName): the names fs.readdirSync
\* answers for '/var/app/' + dirName, a directory other than data; here
\* one name.
listDirectory(dirName, disk) ==
  IF disk = "fails" THEN Throw("ENOENT")
  ELSE Return(Arr(<<Str(<<111>>, Labels(dirName))>>))

\* The route's catch: res.status(500).json({ error: error.message }).
Respond500(t, e) == Effect(t, "res.status(500).json", 0, ErrorBody(e))
RespondJson(t, body) == Effect(t, "res.json", 0, body)

\* ---- UserDataService.exportUserData(session, userData)
TextDefaultJson == <<100, 101, 102, 97, 117, 108, 116, 46, 106, 115, 111, 110>>
\* session.userPrefs?.exportPath || 'default.json'
exportPathOf(prefs) ==
  IF Truthy(prefs) /\ Truthy(GetProp(prefs, KeyExportPath)) THEN GetProp(prefs, KeyExportPath)
  ELSE Str(TextDefaultJson, {})
\* The user data of the model: an object of the request, and undefined.
UserDatas == {Obj(<<Prop(KeyA, Num(1, {"HTTP_BODY"}))>>), Undef}
\* PathTraversalSink.writeFile(exportPath, JSON.stringify(userData)): the
\* function has no await and ends in the call, with the error of the
\* write when it fails.
ExportUserData(t) ==
  /\ IsNextTask(t)
  /\ \E sid \in Sessions, userData \in UserDatas, disk \in DiskBehaviours :
       LET exportPath == exportPathOf(session[sid])
           content == JsonStringify(userData)
           written == writeFile(exportPath, content, disk)
       IN /\ content.k # "string" => disk = "writes"
          /\ effects' = Append(effects, writeFileEffect(t, exportPath, content, disk))
          /\ files' = writeFileFiles(files, exportPath, content, disk)
          /\ tasks' = [tasks EXCEPT ![t] =
               Ended([NoTask EXCEPT !.kind = "exportUserData", !.sid = sid,
                                    !.arg = session[sid], !.data = userData],
                     IF written.out = "throw" THEN written ELSE Return(Undef))]
  /\ UNCHANGED session
  /\ UNCHANGED notSvcVars

PrefsNext ==
  \/ StorePrefs
  \/ \E t \in Tasks :
       ApplyPrefs(t) \/ ResumeApply(t) \/ ExportUserData(t) \/ TaskSettle(t)

SpecPrefs == ChainInit /\ [][PrefsNext]_vars

\* ---- ChainBuilder.templateToXss(template, context, res)
TextHtmlOpen == <<60, 104, 116, 109, 108, 62, 60, 98, 111, 100, 121, 62>>
TextHtmlClose == <<60, 47, 98, 111, 100, 121, 62, 60, 47, 104, 116, 109, 108, 62>>
\* What the rendering of a template returns.
Rendered(template) == Str(<<104>>, Labels(template))
\* XssSink.sendHtml(res, userContent): `<html><body>${userContent}</body></html>`
HtmlPage(userContent) ==
  concat(Str(TextHtmlOpen, {}), userContent, Str(TextHtmlClose, {})).val
\* The method is not async: it renders, sends the page and returns what
\* was rendered, or throws what TemplateSink.renderEjs throws and sends
\* nothing.
TemplateToXss(t) ==
  /\ IsNextTask(t)
  /\ \E template \in {Str(TextLs, {"HTTP_BODY"})},
        ctx \in {Obj(<<Prop(KeyA, Num(1, {}))>>)}, sync \in {"returns", "throws"} :
       LET called == Effect(t, "renderEjs", 0, Arr(<<template, ctx>>))
           task == [NoTask EXCEPT !.kind = "templateToXss", !.arg = template,
                                  !.data = ctx]
       IN IF sync = "throws"
            THEN /\ effects' = Append(effects, called)
                 /\ tasks' = [tasks EXCEPT ![t] = Ended(task, Throw(SinkError(t)))]
          ELSE /\ effects' = effects \o <<called,
                                           Effect(t, "res.send", 0,
                                                  HtmlPage(Rendered(template)))>>
               /\ tasks' = [tasks EXCEPT ![t] = Ended(task, Return(Rendered(template)))]
  /\ UNCHANGED <<session, files>>
  /\ UNCHANGED notSvcVars

\* ---- ChainBuilder.ssrfToStore(url, storePath)
StartSsrfToStore(t) ==
  /\ IsNextTask(t)
  /\ \E url \in Urls, storePath \in Paths, beh \in AsyncBehaviours :
       \E data \in FetchedData(url) :
         /\ tasks' = [tasks EXCEPT ![t] =
              Awaiting([NoTask EXCEPT !.kind = "ssrfToStore",
                                      !.arg = Obj(<<Prop(KeyUrl, url),
                                                    Prop(KeySavePath, storePath)>>),
                                      !.behs = <<beh>>],
                       "fetch", data)]
         /\ effects' = Append(effects, Effect(t, "fetchUrl", 0, url))
  /\ UNCHANGED <<session, files>>
  /\ UNCHANGED notSvcVars

ResumeSsrfToStore(t) ==
  /\ tasks[t].kind = "ssrfToStore" /\ tasks[t].pc = "fetch"
  /\ IsSettled(tasks[t].prom)
  /\ LET url == GetProp(tasks[t].arg, KeyUrl)
         storePath == GetProp(tasks[t].arg, KeySavePath)
         externalData == tasks[t].prom.val
     IN IF ~ IsFulfilled(tasks[t].prom)
          THEN /\ tasks' = [tasks EXCEPT ![t] = Ended(@, AwaitOutcome(tasks[t].prom))]
               /\ UNCHANGED <<files, effects>>
        ELSE \E disk \in DiskBehaviours :
               /\ effects' = Append(effects, writeFileEffect(t, storePath, externalData, disk))
               /\ files' = writeFileFiles(files, storePath, externalData, disk)
               /\ tasks' = [tasks EXCEPT ![t] =
                    Ended([@ EXCEPT !.data = externalData],
                          IF writeFile(storePath, externalData, disk).out = "throw"
                            THEN writeFile(storePath, externalData, disk)
                          ELSE Return(Obj(<<Prop(KeyFetched, url),
                                            Prop(KeyStored, storePath)>>)))]
  /\ UNCHANGED session
  /\ UNCHANGED notSvcVars

\* ---- POST /fetch-and-process
\* `${postProcess} "${savePath}"`
postProcessCommand(postProcess, savePath) ==
  concat(postProcess, Str(TextSpaceQuote, {}),
         concat(savePath, Str(TextQuote, {}), Str(<<>>, {})).val).val

\* A catch block that undoes the write of the request.
catchFiles_Undone(fs, savePath) == FileRemove(fs, WritePath(savePath).p)

\* The files after the route's catch block: it responds and touches no file.
catchFiles(fs, savePath) == fs

StartFetchAndProcess(t) ==
  /\ IsNextTask(t)
  /\ \E url \in Urls, savePath \in Paths, postProcess \in PostProcesses,
        beh1 \in AsyncBehaviours, beh2 \in AsyncBehaviours :
       \E content \in FetchedData(url) :
         /\ Truthy(postProcess) \/ beh2 = "resolves"
         /\ beh1 = "resolves" \/ beh2 = "resolves"
         /\ tasks' = [tasks EXCEPT ![t] =
              Awaiting([NoTask EXCEPT !.kind = "fetchAndProcess",
                                      !.arg = Obj(<<Prop(KeyUrl, url),
                                                    Prop(KeySavePath, savePath),
                                                    Prop(KeyPostProcess, postProcess)>>),
                                      !.behs = <<beh1, beh2>>],
                       "fetch", content)]
         /\ effects' = Append(effects, Effect(t, "fetchUrl", 0, url))
  /\ UNCHANGED <<session, files>>
  /\ UNCHANGED notSvcVars

ResumeFetchAndProcess(t) ==
  /\ tasks[t].kind = "fetchAndProcess" /\ tasks[t].pc = "fetch"
  /\ IsSettled(tasks[t].prom)
  /\ LET url == GetProp(tasks[t].arg, KeyUrl)
         savePath == GetProp(tasks[t].arg, KeySavePath)
         postProcess == GetProp(tasks[t].arg, KeyPostProcess)
         content == tasks[t].prom.val
         command == postProcessCommand(postProcess, savePath)
     IN IF ~ IsFulfilled(tasks[t].prom)
          THEN /\ effects' = Append(effects, Respond500(t, tasks[t].prom.err))
               /\ tasks' = [tasks EXCEPT ![t] = Ended(@, Return(Undef))]
               /\ files' = files
        ELSE \E disk \in DiskBehaviours :
               LET written == writeFile(savePath, content, disk)
                   task == [tasks[t] EXCEPT !.data = content, !.behs = Tail(@)]
               IN
               /\ files' = IF written.out = "throw"
                             THEN catchFiles(writeFileFiles(files, savePath, content, disk),
                                             savePath)
                           ELSE writeFileFiles(files, savePath, content, disk)
               /\ effects' =
                    Append(effects, writeFileEffect(t, savePath, content, disk))
                      \o (IF written.out = "throw" THEN <<Respond500(t, written.err)>>
                          ELSE IF Truthy(postProcess)
                            THEN <<Effect(t, "executeCommand", 0, command)>>
                          ELSE <<RespondJson(t, Obj(<<Prop(KeyFetched, url),
                                                      Prop(KeySaved, savePath),
                                                      Prop(KeyProcessed, Str(TextSaved, {}))>>))>>)
               /\ tasks' = [tasks EXCEPT ![t] =
                    IF written.out = "return" /\ Truthy(postProcess)
                      THEN Awaiting(task, "exec", ExecOutput(command))
                    ELSE Ended(task, Return(Undef))]
  /\ UNCHANGED session
  /\ UNCHANGED notSvcVars

ResumeFetchAndProcessExec(t) ==
  /\ tasks[t].kind = "fetchAndProcess" /\ tasks[t].pc = "exec"
  /\ IsSettled(tasks[t].prom)
  /\ LET url == GetProp(tasks[t].arg, KeyUrl)
         savePath == GetProp(tasks[t].arg, KeySavePath)
     IN /\ effects' = Append(effects,
             IF IsFulfilled(tasks[t].prom)
               THEN RespondJson(t, Obj(<<Prop(KeyFetched, url), Prop(KeySaved, savePath),
                                         Prop(KeyProcessed, tasks[t].prom.val)>>))
             ELSE Respond500(t, tasks[t].prom.err))
        /\ files' = IF IsFulfilled(tasks[t].prom) THEN files
                    ELSE catchFiles(files, savePath)
  /\ tasks' = [tasks EXCEPT ![t] = Ended(@, Return(Undef))]
  /\ UNCHANGED session
  /\ UNCHANGED notSvcVars

\* ---- IntegrationService.processWebhookAndExecute, POST /integration/webhook-execute
\* `process_data "${externalData}" && ${commandToRun}`
webhookCommand(externalData, commandToRun) ==
  concat(Str(TextProcessData, {}), externalData,
         concat(Str(TextQuoteAnd, {}), commandToRun, Str(<<>>, {})).val).val

\* The await of SsrfSink.fetchUrl lets the function go on when the fetch
\* succeeded.
webhookFetched(prom) == IsFulfilled(prom)

StartWebhookExecute(t) ==
  /\ IsNextTask(t)
  /\ \E callbackUrl \in CallbackUrls, commandToRun \in CommandsToRun,
        beh1 \in AsyncBehaviours, beh2 \in AsyncBehaviours :
       \E externalData \in FetchedData(callbackUrl) :
         /\ callbackUrl.k = "string" \/ beh1 = "rejects"
         /\ beh1 = "resolves" \/ beh2 = "resolves"
         /\ tasks' = [tasks EXCEPT ![t] =
              Awaiting([NoTask EXCEPT !.kind = "webhookExecute",
                                      !.arg = Obj(<<Prop(KeyCallbackUrl, callbackUrl),
                                                    Prop(KeyCommandToRun, commandToRun)>>),
                                      !.behs = <<beh1, beh2>>],
                       "fetch", externalData)]
         /\ effects' = Append(effects, Effect(t, "fetchUrl", 0, callbackUrl))
  /\ UNCHANGED <<session, files>>
  /\ UNCHANGED notSvcVars

ResumeWebhookExecute(t) ==
  /\ tasks[t].kind = "webhookExecute" /\ tasks[t].pc = "fetch"
  /\ IsSettled(tasks[t].prom)
  /\ LET commandToRun == GetProp(tasks[t].arg, KeyCommandToRun)
         externalData == tasks[t].prom.val
         command == webhookCommand(externalData, commandToRun)
     IN IF webhookFetched(tasks[t].prom)
          THEN /\ effects' = Append(effects, Effect(t, "executeCommand", 0, command))
               /\ tasks' = [tasks EXCEPT ![t] =
                    Awaiting([@ EXCEPT !.data = externalData, !.behs = Tail(@)],
                             "exec", ExecOutput(command))]
        ELSE /\ effects' = Append(effects, Respond500(t, tasks[t].prom.err))
             /\ tasks' = [tasks EXCEPT ![t] = Ended(@, Return(Undef))]
  /\ UNCHANGED <<session, files>>
  /\ UNCHANGED notSvcVars

ResumeWebhookExecuteExec(t) ==
  /\ tasks[t].kind = "webhookExecute" /\ tasks[t].pc = "exec"
  /\ IsSettled(tasks[t].prom)
  /\ effects' = Append(effects,
       IF IsFulfilled(tasks[t].prom)
         THEN RespondJson(t, Obj(<<Prop(KeyResult, tasks[t].prom.val)>>))
       ELSE Respond500(t, tasks[t].prom.err))
  /\ tasks' = [tasks EXCEPT ![t] = Ended(@, Return(Undef))]
  /\ UNCHANGED <<session, files>>
  /\ UNCHANGED notSvcVars

\* ====================================================== WebSocketService
KeyAction == <<97, 99, 116, 105, 111, 110>>
KeyPayload == <<112, 97, 121, 108, 111, 97, 100>>
KeyFilename == <<102, 105, 108, 101, 110, 97, 109, 101>>
KeyTemplate == <<116, 101, 109, 112, 108, 97, 116, 101>>
KeyContext == <<99, 111, 110, 116, 101, 120, 116>>
KeyTable == <<116, 97, 98, 108, 101>>
KeyMessage == <<109, 101, 115, 115, 97, 103, 101>>
KeySender == <<115, 101, 110, 100, 101, 114>>
KeyType == <<116, 121, 112, 101>>
KeyTimestamp == <<116, 105, 109, 101, 115, 116, 97, 109, 112>>
KeyData == <<100, 97, 116, 97>>
KeyContent == <<99, 111, 110, 116, 101, 110, 116>>
KeyHtml == <<104, 116, 109, 108>>
KeyResults == <<114, 101, 115, 117, 108, 116, 115>>
KeyStatus == <<115, 116, 97, 116, 117, 115>>
KeyDetails == <<100, 101, 116, 97, 105, 108, 115>>
KeyUserId == <<117, 115, 101, 114, 73, 100>>
TextExecuteCommand == <<101, 120, 101, 99, 117, 116, 101, 95, 99, 111, 109, 109, 97, 110, 100>>
TextFetchUrl == <<102, 101, 116, 99, 104, 95, 117, 114, 108>>
TextReadFile == <<114, 101, 97, 100, 95, 102, 105, 108, 101>>
TextRenderTemplate == <<114, 101, 110, 100, 101, 114, 95, 116, 101, 109, 112, 108, 97, 116, 101>>
TextQueryDatabase == <<113, 117, 101, 114, 121, 95, 100, 97, 116, 97, 98, 97, 115, 101>>
TextBroadcast == <<98, 114, 111, 97, 100, 99, 97, 115, 116>>
TextProcessAndStore == <<112, 114, 111, 99, 101, 115, 115, 65, 110, 100, 83, 116, 111, 114, 101>>
TextUnknownAction == <<85, 110, 107, 110, 111, 119, 110, 32, 97, 99, 116, 105, 111, 110>>
TextProcessed == <<112, 114, 111, 99, 101, 115, 115, 101, 100>>
TextAnonymous == <<97, 110, 111, 110, 121, 109, 111, 117, 115>>
TextDataReceived == <<100, 97, 116, 97, 95, 114, 101, 99, 101, 105, 118, 101, 100>>

\* The clientId of the query string of a connection: absent, or "a".
QueryClientIds == {Null, Str(<<97>>, {"WEBSOCKET"})}

\* extractClientId(req): url.searchParams.get('clientId') || 'anonymous'
extractClientId(queryClientId) ==
  IF Truthy(queryClientId) THEN queryClientId.p ELSE TextAnonymous

\* Map.prototype.set, delete and values on the sequence of entries.
MapIndex(map, id) ==
  LET hits == {i \in 1..Len(map) : map[i].id = id}
  IN IF hits = {} THEN 0 ELSE CHOOSE i \in hits : TRUE
MapSet(map, id, ws) ==
  IF MapIndex(map, id) = 0 THEN Append(map, [id |-> id, ws |-> ws])
  ELSE [map EXCEPT ![MapIndex(map, id)].ws = ws]
MapDelete(map, id) == SelectSeq(map, LAMBDA e : e.id # id)

\* wss.on('connection'): the socket is registered under its client id.  The
\* sockets are numbered as they connect.
Connect(s) ==
  /\ sockets[s].state = "none"
  /\ \A r \in Sockets : r < s => sockets[r].state # "none"
  /\ \E queryClientId \in QueryClientIds :
       LET clientId == extractClientId(queryClientId) IN
       /\ clients' = MapSet(clients, clientId, s)
       /\ sockets' = [sockets EXCEPT ![s] = [state |-> "open", clientId |-> clientId]]
  /\ UNCHANGED microtasks
  /\ UNCHANGED svcVars
  /\ UNCHANGED notWsVars

\* ws.on('close'): the entry of the socket's client id is deleted.
Close(s) ==
  /\ sockets[s].state = "open"
  /\ clients' = MapDelete(clients, sockets[s].clientId)
  /\ sockets' = [sockets EXCEPT ![s].state = "closed"]
  /\ UNCHANGED microtasks
  /\ UNCHANGED svcVars
  /\ UNCHANGED notWsVars

\* A message object as the text the client sends.
WsText(action, payload) ==
  Str(StringifyText(Obj(<<Prop(KeyAction, Str(action, {})), Prop(KeyPayload, payload)>>)),
      {"WEBSOCKET"})

PasPayload ==
  Obj(<<Prop(KeyUserId, Str(<<49>>, {})), Prop(KeyData, Str(<<100>>, {})),
        Prop(KeyExportPath, Str(<<102>>, {}))>>)

\* The messages of the model: one per action of handleMessage, the action
\* of README Chain 4, a command without payload, null, and a text that is
\* no JSON.
WsMessages ==
  {WsText(TextExecuteCommand, Obj(<<Prop(KeyCommand, Str(TextLs, {}))>>)),
   WsText(TextExecuteCommand, Undef),
   WsText(TextFetchUrl, Obj(<<Prop(KeyUrl, Str(<<117>>, {}))>>)),
   WsText(TextReadFile, Obj(<<Prop(KeyFilename, Str(<<102>>, {}))>>)),
   WsText(TextRenderTemplate, Obj(<<Prop(KeyTemplate, Str(<<108>>, {}))>>)),
   WsText(TextQueryDatabase, Obj(<<Prop(KeyTable, Str(<<116>>, {}))>>)),
   WsText(TextBroadcast, Obj(<<Prop(KeyMessage, Str(<<108>>, {}))>>)),
   WsText(TextProcessAndStore, PasPayload),
   Str(TextNull, {"WEBSOCKET"}),
   Str(<<123>>, {"WEBSOCKET"})}

\* Each message of the model with what JSON.parse(message) returns or
\* throws.
ParsedMessages == {[text |-> message, parsed |-> JsonParse(message)] : message \in WsMessages}

\* The switch of handleMessage: the method the action is handled by.
HandlerOf(action) ==
  IF action.k # "string" THEN "default"
  ELSE CASE action.p = TextExecuteCommand -> "executeRemoteCommand"
         [] action.p = TextFetchUrl -> "fetchRemoteUrl"
         [] action.p = TextReadFile -> "readRemoteFile"
         [] action.p = TextRenderTemplate -> "renderTemplate"
         [] action.p = TextQueryDatabase -> "queryDatabase"
         [] action.p = TextBroadcast -> "broadcastMessage"
         [] OTHER -> "default"

\* ws.send(JSON.stringify(body)) on socket s.  A send on a socket that has
\* closed is a call all the same: ws drops the data.
Send(t, s, body) == Effect(t, "ws.send", s, JsonStringify(body))

\* A handler that keeps the error to itself.
messageCatch_Silent(t, s, e) == Effect(t, "console.error", s, JsonStringify(ErrorBody(e)))

\* The catch of the message handler: ws.send(JSON.stringify({ error: error.message })).
messageCatch(t, s, e) == Send(t, s, ErrorBody(e))

\* The reply of each method: { result }, { data: result }, { content },
\* { html: rendered }, { results }.
ReplyKey ==
  [executeRemoteCommand |-> KeyResult, fetchRemoteUrl |-> KeyData,
   readRemoteFile |-> KeyContent, renderTemplate |-> KeyHtml, queryDatabase |-> KeyResults]
Reply(t, s, handler, value) == Send(t, s, Obj(<<Prop(ReplyKey[handler], value)>>))

\* The sink a method awaits, the argument of the call and what the sink
\* answers: CommandSink.executeWithArgs runs `${command} ${args}`.
AwaitedSink ==
  [executeRemoteCommand |-> "executeWithArgs", fetchRemoteUrl |-> "fetchUrl",
   queryDatabase |-> "findByField"]
AwaitedArg(handler, payload) ==
  CASE handler = "executeRemoteCommand" ->
         concat(GetProp(payload, KeyCommand), Str(<<32>>, {}), GetProp(payload, KeyArgs)).val
    [] handler = "fetchRemoteUrl" -> GetProp(payload, KeyUrl)
    [] handler = "queryDatabase" ->
         Arr(<<GetProp(payload, KeyTable), GetProp(payload, KeyField),
               GetProp(payload, KeyValue)>>)
AwaitedOutput(handler, arg) ==
  CASE handler = "executeRemoteCommand" -> Str(<<111>>, Labels(arg))
    [] handler = "fetchRemoteUrl" -> Str(<<100>>, Labels(arg))
    [] handler = "queryDatabase" -> Arr(<<>>)

\* JSON.stringify({type: 'broadcast', sender, message, timestamp: Date.now()})
Now == Num(1, {})
broadcastData(payload) ==
  Obj(<<Prop(KeyType, Str(TextBroadcast, {})), Prop(KeySender, GetProp(payload, KeySender)),
        Prop(KeyMessage, GetProp(payload, KeyMessage)), Prop(KeyTimestamp, Now)>>)

\* broadcastMessage(payload): a send to each socket of this.clients.values().
broadcastSends(t, map, payload) ==
  [i \in 1..Len(map) |-> Send(t, map[i].ws, broadcastData(payload))]

\* The handler after its catch block: the error it caught is kept, and the
\* handler returns.
CaughtTask(task, e) == Ended([task EXCEPT !.caught = e], Return(Undef))

\* ---- the promise jobs
\* An await takes up its function again in a promise job, once the awaited
\* promise is settled; the jobs run in the order they were queued, each
\* after the code that queued it has returned.  A job of the model stands
\* for the jobs between the settling of a promise and the next statement
\* of the message handler that the log shows: hops is their number, err
\* the error thrown on the way, if any.
Job(t, hops, e) == [task |-> t, hops |-> hops, err |-> e]
\* An error thrown in handleMessage itself rejects the promise the listener
\* awaits, and the catch is one job away; an error thrown in the method
\* handleMessage awaits rejects the promise of the method, and handleMessage
\* takes it up in a job before the listener does in another.
HopsOfHandleMessage == 1
HopsOfMethod == 2
\* The sink a method awaits has answered: the method goes on in one job;
\* when the sink has failed, handleMessage and the listener take two more.
HopsOfAnswer(task) ==
  IF task.kind \in {"executeRemoteCommand", "fetchRemoteUrl", "queryDatabase"}
       /\ task.prom.st = "rejected"
    THEN 1 + HopsOfMethod
  ELSE 1
\* The job of the task is the next to run, and is the last of its hops.
IsNextJob(t) ==
  /\ microtasks # <<>>
  /\ Head(microtasks).task = t
  /\ Head(microtasks).hops = 1

\* The message handler up to its first await, or to its end: the entries it
\* adds to the log, the task afterwards and the job it has queued.
MessageStep(t, s, message, parsed, beh, sync) ==
  LET data == parsed.val
      handler == HandlerOf(GetProp(data, KeyAction))
      payload == GetProp(data, KeyPayload)
      task == [NoTask EXCEPT !.kind = handler, !.sid = s, !.arg = message,
                             !.data = payload]
      Thrown(log, thrower, e, hops) ==
        [log |-> log, task |-> [thrower EXCEPT !.pc = "catch"],
         micro |-> <<Job(t, hops, e)>>]
      Replied(log) == [log |-> log, task |-> Ended(task, Return(Undef)), micro |-> <<>>]
  IN CASE parsed.out = "throw" ->
            [log |-> <<messageCatch(t, s, parsed.err)>>,
             task |-> CaughtTask([NoTask EXCEPT !.kind = "message", !.sid = s,
                                                !.arg = message],
                                 parsed.err),
             micro |-> <<>>]
       [] parsed.out = "return" /\ data.k = "null" ->
            Thrown(<<>>, [NoTask EXCEPT !.kind = "message", !.sid = s, !.arg = message],
                   "TypeError", HopsOfHandleMessage)
       [] OTHER ->
            CASE handler = "default" ->
                   Replied(<<Send(t, s, Obj(<<Prop(KeyError, Str(TextUnknownAction, {}))>>))>>)
              [] handler # "default" /\ payload.k \in {"undefined", "null"} ->
                   Thrown(<<>>, task, "TypeError",
                          IF handler = "broadcastMessage" THEN HopsOfHandleMessage
                          ELSE HopsOfMethod)
              [] OTHER ->
                   CASE handler \in DOMAIN AwaitedSink ->
                          [log |-> <<Effect(t, AwaitedSink[handler], s,
                                            AwaitedArg(handler, payload))>>,
                           task |-> Awaiting([task EXCEPT !.behs = <<beh>>], "await",
                                             AwaitedOutput(handler,
                                                           AwaitedArg(handler, payload))),
                           micro |-> <<>>]
                     [] handler = "readRemoteFile" ->
                          LET content == readFile(files, GetProp(payload, KeyFilename)) IN
                          IF content.out = "throw"
                            THEN Thrown(<<Effect(t, "readFile", s,
                                                 GetProp(payload, KeyFilename))>>,
                                        task, content.err, HopsOfMethod)
                          ELSE Replied(<<Effect(t, "readFile", s,
                                                GetProp(payload, KeyFilename)),
                                         Reply(t, s, handler, content.val)>>)
                     [] handler = "renderTemplate" ->
                          IF sync = "throws"
                            THEN Thrown(<<Effect(t, "renderNunjucks", s,
                                                 GetProp(payload, KeyTemplate))>>,
                                        task, SinkError(t), HopsOfMethod)
                          ELSE Replied(<<Effect(t, "renderNunjucks", s,
                                                GetProp(payload, KeyTemplate)),
                                         Reply(t, s, handler,
                                               Rendered(GetProp(payload, KeyTemplate)))>>)
                     [] handler = "broadcastMessage" ->
                          Replied(broadcastSends(t, clients, payload))

\* Whether the message reaches a method that awaits a sink, and whether it
\* reaches the rendering.
ReachesAwait(parsed) ==
  LET handler == HandlerOf(GetProp(parsed.val, KeyAction))
  IN /\ parsed.out = "return"
     /\ handler \in DOMAIN AwaitedSink
     /\ GetProp(parsed.val, KeyPayload).k \notin {"undefined", "null"}
ReachesRender(parsed) ==
  parsed.out = "return" /\ HandlerOf(GetProp(parsed.val, KeyAction)) = "renderTemplate"

\* ws.on('message'): JSON.parse and handleMessage, up to the first await of
\* the listener.  What JSON.parse throws is caught at once; what
\* handleMessage throws reaches the catch in a job.
Message(t, s) ==
  /\ sockets[s].state = "open"
  /\ IsNextTask(t)
  /\ \E m \in ParsedMessages, beh \in AsyncBehaviours, sync \in {"returns", "throws"} :
       /\ ReachesAwait(m.parsed) \/ beh = "resolves"
       /\ ReachesRender(m.parsed) \/ sync = "returns"
       /\ \E step \in {MessageStep(t, s, m.text, m.parsed, beh, sync)} :
            /\ effects' = effects \o step.log
            /\ tasks' = [tasks EXCEPT ![t] = step.task]
            /\ microtasks' = microtasks \o step.micro
  /\ UNCHANGED <<session, files>>
  /\ UNCHANGED <<clients, sockets>>
  /\ UNCHANGED notWsVars

\* The sink a task awaits answers as the head of behs says, and the job
\* that takes the task up again is queued.
SinkAnswers(t) ==
  /\ tasks[t].prom.st = "pending"
  /\ Head(tasks[t].behs) \in {"resolves", "rejects"}
  /\ \E task \in {[tasks[t] EXCEPT !.prom =
                     IF Head(tasks[t].behs) = "resolves" THEN Fulfilled(tasks[t].got)
                     ELSE Rejected(SinkError(t))]} :
       /\ tasks' = [tasks EXCEPT ![t] = task]
       /\ microtasks' = Append(microtasks, Job(t, HopsOfAnswer(task), ""))
  /\ UNCHANGED <<session, files, effects>>
  /\ UNCHANGED <<clients, sockets>>
  /\ UNCHANGED notWsVars

\* The first job of the queue is not the last of its hops: the function it
\* takes up ends, and the job of the function that awaits it is queued.
PromiseJob ==
  /\ microtasks # <<>>
  /\ Head(microtasks).hops > 1
  /\ microtasks' = Append(Tail(microtasks), [Head(microtasks) EXCEPT !.hops = @ - 1])
  /\ UNCHANGED svcVars
  /\ UNCHANGED <<clients, sockets>>
  /\ UNCHANGED notWsVars

\* The catch of the listener, for what handleMessage has thrown before its
\* first await.
CatchMessage(t) ==
  /\ tasks[t].pc = "catch"
  /\ IsNextJob(t)
  /\ effects' = Append(effects, messageCatch(t, tasks[t].sid, Head(microtasks).err))
  /\ tasks' = [tasks EXCEPT ![t] = CaughtTask(@, Head(microtasks).err)]
  /\ microtasks' = Tail(microtasks)
  /\ UNCHANGED <<session, files>>
  /\ UNCHANGED <<clients, sockets>>
  /\ UNCHANGED notWsVars

\* The handler after the await of its sink: the reply, or the catch.
ResumeMessage(t) ==
  /\ tasks[t].kind \in DOMAIN AwaitedSink /\ tasks[t].pc = "await"
  /\ IsSettled(tasks[t].prom)
  /\ IsNextJob(t)
  /\ effects' = Append(effects,
       IF IsFulfilled(tasks[t].prom)
         THEN Reply(t, tasks[t].sid, tasks[t].kind, tasks[t].prom.val)
       ELSE messageCatch(t, tasks[t].sid, tasks[t].prom.err))
  /\ tasks' = [tasks EXCEPT ![t] =
       IF IsFulfilled(tasks[t].prom) THEN Ended(@, Return(Undef))
       ELSE CaughtTask(@, tasks[t].prom.err)]
  /\ microtasks' = Tail(microtasks)
  /\ UNCHANGED <<session, files>>
  /\ UNCHANGED <<clients, sockets>>
  /\ UNCHANGED notWsVars

\* ---- WebSocketEventHandler.processAndStore(ws, payload, dbConnection)
\* Step 1: auditLogger.logAction(userId, 'data_received', JSON.stringify(data))
StartProcessAndStore(t, s) ==
  /\ sockets[s].state = "open"
  /\ IsNextTask(t)
  /\ \E beh1 \in AsyncBehaviours, beh2 \in AsyncBehaviours :
       LET payload == PasPayload IN
       /\ beh1 = "resolves" \/ beh2 = "resolves"
       /\ tasks' = [tasks EXCEPT ![t] =
            Awaiting([NoTask EXCEPT !.kind = "processAndStore", !.sid = s,
                                    !.arg = payload, !.behs = <<beh1, beh2>>],
                     "logAction", Undef)]
       /\ effects' = Append(effects,
            Effect(t, "logAction", s,
                   Arr(<<GetProp(payload, KeyUserId), Str(TextDataReceived, {}),
                         JsonStringify(GetProp(payload, KeyData))>>)))
  /\ UNCHANGED <<session, files>>
  /\ UNCHANGED wsVars
  /\ UNCHANGED notWsVars

\* The rows of audit_log the query answers.
AuditRows(userId) == Arr(<<Obj(<<Prop(KeyDetails, Str(<<100>>, Labels(userId)))>>)>>)

\* Step 2: auditLogger.getLogsForUser(userId)
ResumeProcessAndStoreLogged(t) ==
  /\ tasks[t].kind = "processAndStore" /\ tasks[t].pc = "logAction"
  /\ IsSettled(tasks[t].prom)
  /\ IsNextJob(t)
  /\ microtasks' = Tail(microtasks)
  /\ IF IsFulfilled(tasks[t].prom)
       THEN /\ effects' = Append(effects,
                 Effect(t, "getLogsForUser", tasks[t].sid, GetProp(tasks[t].arg, KeyUserId)))
            /\ tasks' = [tasks EXCEPT ![t] =
                 Awaiting([@ EXCEPT !.behs = Tail(@)], "getLogsForUser",
                          AuditRows(GetProp(tasks[t].arg, KeyUserId)))]
     ELSE /\ effects' = effects
          /\ tasks' = [tasks EXCEPT ![t] = Ended(@, AwaitOutcome(tasks[t].prom))]
  /\ UNCHANGED <<session, files>>
  /\ UNCHANGED <<clients, sockets>>
  /\ UNCHANGED notWsVars

\* Step 3: PathTraversalSink.writeFile(exportPath, JSON.stringify(logs)), and
\* the reply.
ResumeProcessAndStoreLogs(t) ==
  /\ tasks[t].kind = "processAndStore" /\ tasks[t].pc = "getLogsForUser"
  /\ IsSettled(tasks[t].prom)
  /\ IsNextJob(t)
  /\ microtasks' = Tail(microtasks)
  /\ IF IsFulfilled(tasks[t].prom)
       THEN \E disk \in DiskBehaviours :
              LET exportPath == GetProp(tasks[t].arg, KeyExportPath)
                  logs == JsonStringify(tasks[t].prom.val)
                  written == writeFile(exportPath, logs, disk)
              IN /\ files' = writeFileFiles(files, exportPath, logs, disk)
                 /\ effects' =
                      Append(effects, writeFileEffect(t, exportPath, logs, disk))
                        \o (IF written.out = "throw" THEN <<>>
                            ELSE <<Send(t, tasks[t].sid,
                                        Obj(<<Prop(KeyStatus, Str(TextProcessed, {}))>>))>>)
                 /\ tasks' = [tasks EXCEPT ![t] =
                      Ended([@ EXCEPT !.data = tasks[t].prom.val, !.behs = Tail(@)],
                            IF written.out = "throw" THEN written ELSE Return(Undef))]
     ELSE /\ effects' = effects
          /\ files' = files
          /\ tasks' = [tasks EXCEPT ![t] = Ended(@, AwaitOutcome(tasks[t].prom))]
  /\ UNCHANGED session
  /\ UNCHANGED <<clients, sockets>>
  /\ UNCHANGED notWsVars

\* ---- WebSocketService.sendToClient(clientId, message)
KeyX == <<120>>
KeyConfigUrl == <<99, 111, 110, 102, 105, 103, 85, 114, 108>>
KeyDefaultCommand == <<100, 101, 102, 97, 117, 108, 116, 67, 111, 109, 109, 97, 110, 100>>
TextRenderedContent == <<114, 101, 110, 100, 101, 114, 101, 100, 95, 99, 111, 110, 116, 101, 110, 116>>
\* The client ids asked for: "a", "anonymous", and one no socket has.
ClientIdsAsked == {<<97>>, TextAnonymous, <<110>>}
\* this.clients.get(clientId), and the send when there is such a client.
sendToClientSends(t, map, clientId, message) ==
  IF MapIndex(map, clientId) = 0 THEN <<>>
  ELSE <<Send(t, map[MapIndex(map, clientId)].ws, message)>>
SendToClient(t) ==
  /\ IsNextTask(t)
  /\ \E clientId \in ClientIdsAsked, message \in {Obj(<<Prop(KeyX, Num(1, {}))>>)} :
       /\ effects' = effects \o sendToClientSends(t, clients, clientId, message)
       /\ tasks' = [tasks EXCEPT ![t] =
            Ended([NoTask EXCEPT !.kind = "sendToClient", !.arg = Str(clientId, {}),
                                 !.data = message],
                  Return(Undef))]
  /\ UNCHANGED <<session, files>>
  /\ UNCHANGED wsVars
  /\ UNCHANGED notWsVars

\* ---- WebSocketEventHandler.fetchAndExecute(ws, payload)
FaePayload ==
  Obj(<<Prop(KeyConfigUrl, Str(<<117>>, {"WEBSOCKET"})),
        Prop(KeyDefaultCommand, Str(<<120>>, {"WEBSOCKET"}))>>)
\* What the fetch of the config answers: a config with a command, one
\* without, and null.
FetchedConfigs(configUrl) ==
  {Obj(<<Prop(KeyCommand, Str(<<99>>, Labels(configUrl)))>>), Obj(<<>>), Null}
\* config.command || defaultCommand
fetchedCommand(config, defaultCommand) ==
  IF Truthy(GetProp(config, KeyCommand)) THEN GetProp(config, KeyCommand)
  ELSE defaultCommand
\* Step 1: SsrfSink.fetchUrl(configUrl)
StartFetchAndExecute(t, s) ==
  /\ sockets[s].state = "open"
  /\ IsNextTask(t)
  /\ \E beh1 \in AsyncBehaviours, beh2 \in AsyncBehaviours :
       \E config \in FetchedConfigs(GetProp(FaePayload, KeyConfigUrl)) :
         /\ beh1 # "resolves" => config = Null
         /\ (beh1 # "resolves" \/ config = Null) => beh2 = "resolves"
         /\ tasks' = [tasks EXCEPT ![t] =
              Awaiting([NoTask EXCEPT !.kind = "fetchAndExecute", !.sid = s,
                                      !.arg = FaePayload, !.behs = <<beh1, beh2>>],
                       "fetch", config)]
         /\ effects' = Append(effects,
              Effect(t, "fetchUrl", s, GetProp(FaePayload, KeyConfigUrl)))
  /\ UNCHANGED <<session, files>>
  /\ UNCHANGED wsVars
  /\ UNCHANGED notWsVars

\* Step 2: CommandSink.executeCommand(config.command || defaultCommand); a
\* config that is null has no property to read.
ResumeFetchAndExecute(t) ==
  /\ tasks[t].kind = "fetchAndExecute" /\ tasks[t].pc = "fetch"
  /\ IsSettled(tasks[t].prom)
  /\ IsNextJob(t)
  /\ microtasks' = Tail(microtasks)
  /\ LET config == tasks[t].prom.val
         command == fetchedCommand(config, GetProp(tasks[t].arg, KeyDefaultCommand))
     IN IF ~ IsFulfilled(tasks[t].prom)
          THEN /\ effects' = effects
               /\ tasks' = [tasks EXCEPT ![t] = Ended(@, AwaitOutcome(tasks[t].prom))]
        ELSE IF config.k \in {"null", "undefined"}
          THEN /\ effects' = effects
               /\ tasks' = [tasks EXCEPT ![t] = Ended(@, Throw("TypeError"))]
        ELSE /\ effects' = Append(effects,
                  Effect(t, "executeCommand", tasks[t].sid, command))
             /\ tasks' = [tasks EXCEPT ![t] =
                  Awaiting([@ EXCEPT !.data = config, !.behs = Tail(@)], "exec",
                           ExecOutput(command))]
  /\ UNCHANGED <<session, files>>
  /\ UNCHANGED <<clients, sockets>>
  /\ UNCHANGED notWsVars

\* ws.send(JSON.stringify({ result }))
ResumeFetchAndExecuteExec(t) ==
  /\ tasks[t].kind = "fetchAndExecute" /\ tasks[t].pc = "exec"
  /\ IsSettled(tasks[t].prom)
  /\ IsNextJob(t)
  /\ microtasks' = Tail(microtasks)
  /\ IF IsFulfilled(tasks[t].prom)
       THEN /\ effects' = Append(effects,
                 Send(t, tasks[t].sid, Obj(<<Prop(KeyResult, tasks[t].prom.val)>>)))
            /\ tasks' = [tasks EXCEPT ![t] = Ended(@, Return(Undef))]
     ELSE /\ effects' = effects
          /\ tasks' = [tasks EXCEPT ![t] = Ended(@, AwaitOutcome(tasks[t].prom))]
  /\ UNCHANGED <<session, files>>
  /\ UNCHANGED <<clients, sockets>>
  /\ UNCHANGED notWsVars

\* ---- WebSocketEventHandler.renderAndBroadcast(wss, payload)
RabPayload ==
  Obj(<<Prop(KeyTemplate, Str(<<108>>, {"WEBSOCKET"})), Prop(KeyContext, Obj(<<>>))>>)
\* wss.clients: the sockets that are connected, in the order they connected.
ServerClients ==
  SelectSeq([i \in 1..Cardinality(Sockets) |-> i], LAMBDA s : sockets[s].state = "open")
renderedContent(rendered) ==
  Obj(<<Prop(KeyType, Str(TextRenderedContent, {})), Prop(KeyHtml, rendered)>>)
RenderAndBroadcast(t) ==
  /\ IsNextTask(t)
  /\ \E sync \in {"returns", "throws"} :
       LET template == GetProp(RabPayload, KeyTemplate)
           called == Effect(t, "renderEjs", 0,
                            Arr(<<template, GetProp(RabPayload, KeyContext)>>))
           task == [NoTask EXCEPT !.kind = "renderAndBroadcast", !.arg = RabPayload]
       IN IF sync = "throws"
            THEN /\ effects' = Append(effects, called)
                 /\ tasks' = [tasks EXCEPT ![t] = Ended(task, Throw(SinkError(t)))]
          ELSE /\ effects' =
                    Append(effects, called)
                      \o [i \in 1..Len(ServerClients) |->
                            Send(t, ServerClients[i], renderedContent(Rendered(template)))]
               /\ tasks' = [tasks EXCEPT ![t] = Ended(task, Return(Undef))]
  /\ UNCHANGED <<session, files>>
  /\ UNCHANGED wsVars
  /\ UNCHANGED notWsVars

\* The methods of the service and of the event handler that nothing in the
\* gateway calls, on the sockets that have connected.
WsCallsNext ==
  \/ \E s \in Sockets : Connect(s) \/ Close(s)
  \/ \E t \in Tasks :
       \/ SendToClient(t)
       \/ \E s \in Sockets : StartFetchAndExecute(t, s)
       \/ ResumeFetchAndExecute(t)
       \/ ResumeFetchAndExecuteExec(t)
       \/ RenderAndBroadcast(t)
       \/ SinkAnswers(t)

SpecWsCalls == ChainInit /\ [][WsCallsNext]_vars

WsNext ==
  \/ \E s \in Sockets : Connect(s) \/ Close(s)
  \/ \E t \in Tasks :
       \/ \E s \in Sockets : Message(t, s) \/ StartProcessAndStore(t, s)
       \/ CatchMessage(t)
       \/ ResumeMessage(t)
       \/ ResumeProcessAndStoreLogged(t)
       \/ ResumeProcessAndStoreLogs(t)
       \/ SinkAnswers(t)
  \/ PromiseJob

SpecWs == ChainInit /\ [][WsNext]_vars

\* ========================================================= SinkDispatcher
KeyTarget == <<116, 97, 114, 103, 101, 116>>
KeyOperation == <<111, 112, 101, 114, 97, 116, 105, 111, 110>>
KeyBody == <<98, 111, 100, 121>>
KeyPath == <<112, 97, 116, 104>>
KeyOrderBy == <<111, 114, 100, 101, 114, 66, 121>>
KeyOrderDir == <<111, 114, 100, 101, 114, 68, 105, 114>>
KeyPattern == <<112, 97, 116, 116, 101, 114, 110>>
KeyConditions == <<99, 111, 110, 100, 105, 116, 105, 111, 110, 115>>

\* The cases of the five switches: the method, the action (the engine, for
\* dispatchTemplate), the sink of the case, the properties of data that are
\* the sink's arguments (template and context are arguments of
\* dispatchTemplate itself), and whether the sink is awaited.
DispatchCases ==
  {
   [method |-> "dispatchCommand", action |-> "execute", sink |-> "executeCommand",
    keys |-> <<KeyCommand>>, mode |-> "await"],
   [method |-> "dispatchCommand", action |-> "system", sink |-> "runSystemCommand",
    keys |-> <<KeyAction, KeyTarget>>, mode |-> "sync"],
   [method |-> "dispatchCommand", action |-> "process", sink |-> "processFile",
    keys |-> <<KeyFilename, KeyOperation>>, mode |-> "await"],
   [method |-> "dispatchNetwork", action |-> "fetch", sink |-> "fetchUrl",
    keys |-> <<KeyUrl>>, mode |-> "await"],
   [method |-> "dispatchNetwork", action |-> "post", sink |-> "postToUrl",
    keys |-> <<KeyUrl, KeyBody>>, mode |-> "await"],
   [method |-> "dispatchNetwork", action |-> "webhook", sink |-> "sendWebhook",
    keys |-> <<KeyCallbackUrl, KeyPayload>>, mode |-> "await"],
   [method |-> "dispatchFile", action |-> "read", sink |-> "readFile",
    keys |-> <<KeyPath>>, mode |-> "sync"],
   [method |-> "dispatchFile", action |-> "write", sink |-> "writeFile",
    keys |-> <<KeyPath, KeyContent>>, mode |-> "sync"],
   [method |-> "dispatchFile", action |-> "delete", sink |-> "deleteFile",
    keys |-> <<KeyPath>>, mode |-> "sync"],
   [method |-> "dispatchFile", action |-> "list", sink |-> "listDirectory",
    keys |-> <<KeyPath>>, mode |-> "sync"],
   [method |-> "dispatchTemplate", action |-> "ejs", sink |-> "renderEjs",
    keys |-> <<KeyTemplate, KeyContext>>, mode |-> "sync"],
   [method |-> "dispatchTemplate", action |-> "pug", sink |-> "renderPug",
    keys |-> <<KeyTemplate, KeyContext>>, mode |-> "sync"],
   [method |-> "dispatchTemplate", action |-> "handlebars", sink |-> "renderHandlebars",
    keys |-> <<KeyTemplate, KeyContext>>, mode |-> "sync"],
   [method |-> "dispatchTemplate", action |-> "nunjucks", sink |-> "renderNunjucks",
    keys |-> <<KeyTemplate, KeyContext>>, mode |-> "sync"],
   [method |-> "dispatchTemplate", action |-> "eval", sink |-> "evaluateExpression",
    keys |-> <<KeyTemplate, KeyContext>>, mode |-> "sync"],
   [method |-> "dispatchSQL", action |-> "findByField", sink |-> "findByField",
    keys |-> <<KeyTable, KeyField, KeyValue>>, mode |-> "await"],
   [method |-> "dispatchSQL", action |-> "findAll", sink |-> "findAllOrdered",
    keys |-> <<KeyTable, KeyOrderBy, KeyOrderDir>>, mode |-> "await"],
   [method |-> "dispatchSQL", action |-> "search", sink |-> "searchByPattern",
    keys |-> <<KeyTable, KeyField, KeyPattern>>, mode |-> "await"],
   [method |-> "dispatchSQL", action |-> "dynamic", sink |-> "dynamicQuery",
    keys |-> <<KeyTable, KeyConditions>>, mode |-> "await"]
  }
DispatchMethods == {c.method : c \in DispatchCases}
\* The async methods: what they throw rejects their promise.
AsyncDispatchMethods == {"dispatchCommand", "dispatchNetwork", "dispatchSQL"}
\* The actions of the model: those of the cases, and one that no case has.
DispatchActions == {c.action : c \in DispatchCases} \cup {"other"}

\* The data of the model for a case: every property the case reads, the
\* first one from the request body; an object without them; undefined.
DataWith(keys) ==
  Obj([i \in 1..Len(keys) |->
         Prop(keys[i], Str(<<96 + i>>, IF i = 1 THEN {"HTTP_BODY"} ELSE {}))])
DispatchData(keys) == {DataWith(keys), Obj(<<>>), Undef}

\* The arguments the case hands to its sink: data.<key> for each key.
DispatchArgs(keys, data) == Arr([i \in 1..Len(keys) |-> GetProp(data, keys[i])])

\* A dispatcher that hands the sink the whole of data.
dispatchedArgs_WholeData(keys, data) == Arr(<<data>>)

\* What the sink is called with.
dispatchedArgs(keys, data) == DispatchArgs(keys, data)

\* What a sink of the environment answers for its arguments.
DispatchOutput(args) ==
  Str(<<111>>, Labels(args))

\* The sinks of FileSink.js, which work on the disk.
FileSinks == {"readFile", "writeFile", "deleteFile", "listDirectory"}

\* What the call of the sink gives: PathTraversalSink.readFile answers the
\* content of the file and writeFile the path it wrote, each with the
\* errors of fs; deleteFile and listDirectory work outside /var/app/data/;
\* any other sink answers or raises as the environment chooses (raised is
\* the error it raises with).
SinkOutcome(fs, sink, args, beh, raised) ==
  LET disk == IF beh = "resolves" THEN "writes" ELSE "fails" IN
  CASE sink = "readFile" -> readFile(fs, ArgAt(args.p, 1))
    [] sink = "writeFile" -> writeFile(ArgAt(args.p, 1), ArgAt(args.p, 2), disk)
    [] sink = "deleteFile" -> deleteFile(ArgAt(args.p, 1), disk)
    [] sink = "listDirectory" -> listDirectory(ArgAt(args.p, 1), disk)
    [] OTHER -> IF beh = "resolves" THEN Return(DispatchOutput(args)) ELSE Throw(raised)

\* What the sink answers when it accepts its arguments.
SinkAnswer(fs, sink, args) == SinkOutcome(fs, sink, args, "resolves", "").val

\* The errors a sink raises with: those of fs for the sinks of FileSink.js,
\* its own for any other.
SinkErrors(t, sink) ==
  IF sink \in FileSinks THEN {"ENOENT", "TypeError"} ELSE {SinkError(t)}

\* The files under /var/app/data/ after the call of the sink: writeFile
\* creates or overwrites its file when the write succeeds (deleteFile
\* removes a file under /var/app/uploads, which is none of them).
dispatchedFiles(fs, sink, args, beh) ==
  IF sink = "writeFile"
    THEN writeFileFiles(fs, ArgAt(args.p, 1), ArgAt(args.p, 2),
                        IF beh = "resolves" THEN "writes" ELSE "fails")
  ELSE fs

\* The case of the switch of the method for the action; none for default.
CasesOf(method, action) ==
  {c \in DispatchCases : c.method = method /\ c.action = action}

\* SinkDispatcher.dispatchCommand / dispatchNetwork / dispatchFile /
\* dispatchTemplate / dispatchSQL, up to the await of the sink or to the end.
Dispatch(t) ==
  /\ IsNextTask(t)
  /\ \E method \in DispatchMethods, action \in DispatchActions,
        beh \in AsyncBehaviours :
       LET cases == CasesOf(method, action)
           task == [NoTask EXCEPT !.kind = method]
       IN IF cases = {}
            THEN /\ beh = "resolves"
                 /\ tasks' = [tasks EXCEPT ![t] =
                      Ended([task EXCEPT !.arg = Undef],
                            Throw(IF method = "dispatchTemplate" THEN "Unknown engine"
                                  ELSE "Unknown action"))]
                 /\ effects' = effects
                 /\ files' = files
          ELSE \E c \in cases : \E data \in DispatchData(c.keys) :
                 LET args == dispatchedArgs(c.keys, data) IN
                 IF data.k = "undefined" /\ method # "dispatchTemplate"
                   THEN /\ beh = "resolves"
                        /\ tasks' = [tasks EXCEPT ![t] =
                             Ended([task EXCEPT !.arg = data], Throw("TypeError"))]
                        /\ effects' = effects
                        /\ files' = files
                 ELSE \E outcome \in {SinkOutcome(files, c.sink, args, beh, SinkError(t))} :
                      /\ effects' = Append(effects, Effect(t, c.sink, 0, args))
                      /\ c.mode = "sync" =>
                           /\ beh # "hangs"
                           /\ (beh = "resolves") = (outcome.out = "return")
                      /\ files' = IF c.mode = "sync"
                                    THEN dispatchedFiles(files, c.sink, args, beh)
                                  ELSE files
                      /\ tasks' = [tasks EXCEPT ![t] =
                           IF c.mode = "sync"
                             THEN Ended([task EXCEPT !.arg = data], outcome)
                           ELSE Awaiting([task EXCEPT !.arg = data, !.behs = <<beh>>],
                                         "await", SinkAnswer(files, c.sink, args))]
  /\ UNCHANGED session
  /\ UNCHANGED notSvcVars

\* return await <sink>(...): the dispatcher ends as its sink did.
ResumeDispatch(t) ==
  /\ tasks[t].kind \in AsyncDispatchMethods /\ tasks[t].pc = "await"
  /\ IsSettled(tasks[t].prom)
  /\ tasks' = [tasks EXCEPT ![t] = Ended(@, AwaitOutcome(tasks[t].prom))]
  /\ UNCHANGED <<session, files, effects>>
  /\ UNCHANGED notSvcVars

DispatchNext ==
  \E t \in Tasks : Dispatch(t) \/ ResumeDispatch(t) \/ TaskSettle(t)

SpecDispatch == ChainInit /\ [][DispatchNext]_vars

\* ====================================================== AuthMiddleware
\* A request is a task: sid is its session, arg the middleware still to
\* run on its route, data its req.user.  The log records every invocation
\* of a middleware, every next() and every response.
TextBearer == <<98, 101, 97, 114, 101, 114>>
TextAdmin == <<97, 100, 109, 105, 110>>
TextUser == <<117, 115, 101, 114>>
TextRead == <<114, 101, 97, 100>>
TextRole == <<82, 111, 108, 101>>
TextInternalIp == <<49, 48, 46, 48, 46, 48, 46, 49>>
TextExternalIp == <<56, 46, 56, 46, 56, 46, 56>>
Key0 == <<48>>
KeyId == <<105, 100>>
KeySub == <<115, 117, 98>>
KeyEmail == <<101, 109, 97, 105, 108>>
KeyRole == <<114, 111, 108, 101>>
KeyPermissions == <<112, 101, 114, 109, 105, 115, 115, 105, 111, 110, 115>>
KeyAttributes == <<97, 116, 116, 114, 105, 98, 117, 116, 101, 115>>
KeySamlResponse == <<115, 97, 109, 108, 112, 58, 82, 101, 115, 112, 111, 110, 115, 101>>
KeySamlAssertion == <<115, 97, 109, 108, 58, 65, 115, 115, 101, 114, 116, 105, 111, 110>>
KeySamlSubject == <<115, 97, 109, 108, 58, 83, 117, 98, 106, 101, 99, 116>>
KeySamlNameID == <<115, 97, 109, 108, 58, 78, 97, 109, 101, 73, 68>>
KeySamlAttributeStatement ==
  <<115, 97, 109, 108, 58, 65, 116, 116, 114, 105, 98, 117, 116, 101, 83, 116, 97,
    116, 101, 109, 101, 110, 116>>
KeySamlAttribute == <<115, 97, 109, 108, 58, 65, 116, 116, 114, 105, 98, 117, 116, 101>>
KeySamlAttributeValue ==
  <<115, 97, 109, 108, 58, 65, 116, 116, 114, 105, 98, 117, 116, 101, 86, 97, 108, 117, 101>>
KeyDollar == <<36>>
KeyName == <<78, 97, 109, 101>>
TextNoAuthorization ==
  <<78, 111, 32, 97, 117, 116, 104, 111, 114, 105, 122, 97, 116, 105, 111, 110, 32,
    104, 101, 97, 100, 101, 114>>
TextInvalidToken == <<73, 110, 118, 97, 108, 105, 100, 32, 116, 111, 107, 101, 110>>
TextInsufficient ==
  <<73, 110, 115, 117, 102, 102, 105, 99, 105, 101, 110, 116, 32, 112, 101, 114, 109,
    105, 115, 115, 105, 111, 110, 115>>
TextPermissionDenied ==
  <<80, 101, 114, 109, 105, 115, 115, 105, 111, 110, 32, 100, 101, 110, 105, 101, 100>>
TextMissingSaml ==
  <<77, 105, 115, 115, 105, 110, 103, 32, 83, 65, 77, 76, 32, 114, 101, 115, 112, 111,
    110, 115, 101>>
TextInvalidSaml ==
  <<73, 110, 118, 97, 108, 105, 100, 32, 83, 65, 77, 76, 32, 97, 115, 115, 101, 114,
    116, 105, 111, 110>>
TextSamlFailed ==
  <<83, 65, 77, 76, 32, 118, 97, 108, 105, 100, 97, 116, 105, 111, 110, 32, 102, 97,
    105, 108, 101, 100>>
TextMissingApiKey == <<77, 105, 115, 115, 105, 110, 103, 32, 65, 80, 73, 32, 107, 101, 121>>
TextInvalidApiKey == <<73, 110, 118, 97, 108, 105, 100, 32, 65, 80, 73, 32, 107, 101, 121>>
TextAuthenticationError ==
  <<65, 117, 116, 104, 101, 110, 116, 105, 99, 97, 116, 105, 111, 110, 32, 101, 114,
    114, 111, 114>>
TextAccessDenied ==
  <<65, 99, 99, 101, 115, 115, 32, 100, 101, 110, 105, 101, 100, 32, 45, 32, 105, 110,
    116, 101, 114, 110, 97, 108, 32, 111, 110, 108, 121>>

\* value[key]: an own property, an element of an array, a character of a
\* string; undefined otherwise.  value?.[key] is undefined for undefined
\* and null.
Member(v, key) ==
  LET ps == OwnProps(v)
      hits == {i \in 1..Len(ps) : ps[i].key = key}
  IN IF hits = {} THEN Undef ELSE ps[CHOOSE i \in hits : TRUE].val
OptMember(v, key) == IF v.k \in {"undefined", "null"} THEN Undef ELSE Member(v, key)

\* value === 'text'
IsText(v, text) == v.k = "string" /\ v.p = text

ToLowerCase(text) ==
  [i \in 1..Len(text) |-> IF text[i] >= 65 /\ text[i] <= 90 THEN text[i] + 32 ELSE text[i]]

RECURSIVE Trim(_)
\* text.trim(), for the white space the model has: the space.
Trim(text) ==
  IF text # <<>> /\ Head(text) = 32 THEN Trim(Tail(text))
  ELSE IF text # <<>> /\ text[Len(text)] = 32 THEN Trim(SubSeq(text, 1, Len(text) - 1))
  ELSE text

\* ---- JwtSource
\* extractClaims(token): the JSON value of the second of three parts, null
\* when there are not three parts or the second is no base64 of JSON.
extractClaims(token) ==
  IF ~ Truthy(token) THEN Null
  ELSE LET parts == Split(token.p, 46) IN
    IF Len(parts) # 3 THEN Null
    ELSE LET payload == Str(Utf8Decode(Base64Decode(parts[2])), token.l)
             parsed == JsonParse(payload)
         IN IF parsed.out = "throw" THEN Null ELSE parsed.val

\* extractFromHeader(authHeader)
extractFromHeader(authHeader) ==
  IF ~ Truthy(authHeader) THEN Null
  ELSE LET parts == Split(authHeader.p, 32)
           token == IF Len(parts) >= 2 THEN Str(parts[2], authHeader.l) ELSE Undef
       IN IF ToLowerCase(parts[1]) = TextBearer THEN extractClaims(token) ELSE Null

\* A token with the claims, as a client makes it: header.payload.signature.
JwtOf(claims) ==
  <<104, 46>> \o Base64Encode(Utf8Encode(StringifyText(claims))) \o <<46, 115>>
BearerHeader(scheme, token) == Str(scheme \o <<32>> \o token, {"HTTP_HEADER"})

\* The claims a client sends: an administrator, a user whose permissions
\* are the text "read", one whose permissions are a number, and a number.
ClaimsSent ==
  {Obj(<<Prop(KeySub, Str(<<117>>, {})), Prop(KeyRole, Str(TextAdmin, {})),
         Prop(KeyPermissions, Arr(<<Str(TextRead, {})>>))>>),
   Obj(<<Prop(KeyRole, Str(TextUser, {})), Prop(KeyPermissions, Str(TextRead, {}))>>),
   Obj(<<Prop(KeyRole, Arr(<<Str(TextAdmin, {})>>)), Prop(KeyPermissions, Num(5, {}))>>),
   Num(5, {})}

\* The Authorization headers of the model, each with the claims
\* extractFromHeader answers for it.
AuthHeaders ==
  {Undef, BearerHeader(<<66, 97, 115, 105, 99>>, <<120>>),
   BearerHeader(TextBearer, <<104, 46, 101>>)}
  \cup {BearerHeader(<<66, 101, 97, 114, 101, 114>>, JwtOf(claims)) : claims \in ClaimsSent}
AuthHeaderClaims == {[header |-> h, claims |-> extractFromHeader(h)] : h \in AuthHeaders}

\* ---- the requests
\* The middleware a route mounts, in order: one of them, or one that sets
\* req.user followed by one that reads it.  requireAdmin stands for the
\* /admin mount of server.js: requireAdmin, then the admin router.
MiddlewareNames ==
  {"extractUser", "requireRole", "requireAdmin", "requirePermission",
   "validateSamlResponse", "validateApiKey", "requireInternalIp", "debugAuth"}
Routes ==
  {<<m>> : m \in MiddlewareNames}
  \cup {<<m, n>> : m \in {"extractUser", "validateSamlResponse"},
                   n \in {"requireRole", "requireAdmin", "requirePermission"}}

\* req.query and req.body as the query parser and the body parsers of
\* server.js leave them: an object each, empty when the request has none.
\* A route that mounts validateSamlResponse is also sent a SAMLResponse
\* that is a number or the base64 of a document.
KeyQuery == <<113, 117, 101, 114, 121>>
KeyStack == <<115, 116, 97, 99, 107>>
KeyBodySamlResponse == <<83, 65, 77, 76, 82, 101, 115, 112, 111, 110, 115, 101>>
SamlResponses == {Num(5, {"HTTP_BODY"}), Str(<<80, 65, 61, 61>>, {"HTTP_BODY"})}
RequestOf(query, body) == Obj(<<Prop(KeyQuery, query), Prop(KeyBody, body)>>)
RequestsSent(route) ==
  {RequestOf(Obj(<<>>), Obj(<<>>)),
   RequestOf(Obj(<<Prop(KeyD, Str(<<113>>, {"HTTP_QUERY"}))>>),
             Obj(<<Prop(KeyA, Num(1, {"HTTP_BODY"}))>>))}
  \cup (IF \E i \in 1..Len(route) : route[i] = "validateSamlResponse"
          THEN {RequestOf(Obj(<<>>), Obj(<<Prop(KeyBodySamlResponse, r)>>)) :
                  r \in SamlResponses}
        ELSE {})

ResponseSinks ==
  {"res.status(400).json", "res.status(401).json", "res.status(403).json",
   "res.status(500).json"}

\* JavaScript runs a request up to its next await, or to its end, before
\* anything else: a request that stands between two middleware is the one
\* that runs.
Running(t) == tasks[t].kind = "request" /\ tasks[t].pc = "route"
Mounted(t, name) ==
  /\ Running(t)
  /\ Head(tasks[t].arg) = name

\* A request arrives on a route, in a session.  The sessions are numbered
\* as they are first used.
Request(t) ==
  /\ IsNextTask(t)
  /\ \A u \in Tasks : ~ Running(u)
  /\ \E sid \in Sessions, route \in Routes :
       \E req \in RequestsSent(route) :
         /\ \A s \in Sessions : s < sid => \E u \in Tasks : tasks[u].sid = s
         /\ tasks' = [tasks EXCEPT ![t] =
              [NoTask EXCEPT !.kind = "request", !.pc = "route", !.sid = sid,
                             !.arg = route, !.req = req]]
  /\ UNCHANGED <<effects, sessionUser>>
  /\ UNCHANGED notAuthVars

\* The entries of the log: the invocation of a middleware with what it
\* reads of the request, next(), and res.status(code).json({error: text}).
Entered(t, name, arg) == Effect(t, name, tasks[t].sid, arg)
NextCalled(t) == Effect(t, "next", 0, Undef)
ErrorSent(t, sink, text) == Effect(t, sink, 0, Obj(<<Prop(KeyError, Str(text, {}))>>))

\* The request after next(): at the next middleware of its route, or, past
\* the last one, at a handler outside the model.
Continues(task, user) ==
  [task EXCEPT !.pc = IF Len(task.arg) = 1 THEN "done" ELSE "route",
               !.arg = Tail(task.arg), !.data = user, !.behs = <<>>, !.prom = NoProm,
               !.got = Undef]
\* The outcomes of a middleware: it calls next(), it answers, or it throws.
\* An exception thrown out of a middleware that is not async is caught by
\* the router, which hands it to the error handler of server.js.
Finished(task, result) ==
  [Ended(task, result) EXCEPT !.behs = <<>>, !.prom = NoProm, !.got = Undef]
Nexts(t, user) ==
  [log |-> <<NextCalled(t)>>, task |-> Continues(tasks[t], user)]
Answers(t, sink, text) ==
  [log |-> <<ErrorSent(t, sink, text)>>, task |-> Finished(tasks[t], NoResult)]
\* The error handler of server.js answers with the message and the stack
\* of the error and echoes the query and the body of the request.
StackOf(e) == Str(MessageText[e] \o <<10, 32, 97, 116>>, {})
ErrorHandled(t, e) ==
  Effect(t, "res.status(500).json", 0,
         Obj(<<Prop(KeyError, Str(MessageText[e], {})), Prop(KeyStack, StackOf(e)),
               Prop(KeyQuery, GetProp(tasks[t].req, KeyQuery)),
               Prop(KeyBody, GetProp(tasks[t].req, KeyBody))>>))
ThrowsSync(t, e) ==
  [log |-> <<Effect(t, "throw", 0, Str(MessageText[e], {})), ErrorHandled(t, e)>>,
   task |-> Finished(tasks[t], Throw(e))]
\* The middleware awaits a capability it has called.
Awaits(t, called, pc, got, beh) ==
  [log |-> <<called>>, task |-> Awaiting([tasks[t] EXCEPT !.behs = <<beh>>], pc, got)]
\* The outcome of a middleware that was invoked.
Called(call, step) == [step EXCEPT !.log = <<call>> \o @]
Takes(t, step) ==
  /\ tasks' = [tasks EXCEPT ![t] = step.task]
  /\ effects' = effects \o step.log
  /\ UNCHANGED notAuthVars
\* The awaited capability of a request has answered, and nothing else runs.
Resumes(t, pc) ==
  /\ tasks[t].kind = "request"
  /\ tasks[t].pc = pc
  /\ tasks[t].prom.st \in {"fulfilled", "rejected"}
  /\ \A u \in Tasks : ~ Running(u)

\* ---- extractUser(req, res, next)
userOfClaims(claims) ==
  Obj(<<Prop(KeyId, Member(claims, KeySub)), Prop(KeyEmail, Member(claims, KeyEmail)),
        Prop(KeyRole, Member(claims, KeyRole)),
        Prop(KeyPermissions, Member(claims, KeyPermissions))>>)
extractUserStep(t, authHeader, claims) ==
  Called(Entered(t, "extractUser", authHeader),
    IF ~ Truthy(authHeader) THEN Answers(t, "res.status(401).json", TextNoAuthorization)
    ELSE IF ~ Truthy(claims) THEN Answers(t, "res.status(401).json", TextInvalidToken)
    ELSE Nexts(t, userOfClaims(claims)))
extractUser(t) ==
  /\ Mounted(t, "extractUser")
  /\ \E h \in AuthHeaderClaims :
       \E step \in {extractUserStep(t, h.header, h.claims)} : Takes(t, step)
  /\ UNCHANGED sessionUser

\* ---- requireRole(role)(req, res, next)
\* A comparison that converts the role to a string first, as == does.
roleAccepted_Loose(user, role) == ToStringText(OptMember(user, KeyRole)) = role

\* req.user?.role === role
roleAccepted(user, role) == IsText(OptMember(user, KeyRole), role)
requireRoleStep(t, name, role) ==
  LET user == tasks[t].data IN
  Called(Entered(t, name, user),
    IF ~ roleAccepted(user, role)
      THEN Answers(t, "res.status(403).json", TextInsufficient)
    ELSE Nexts(t, user))
requireRole(t) ==
  /\ Mounted(t, "requireRole")
  /\ \E role \in {TextAdmin, TextUser} :
       \E step \in {requireRoleStep(t, "requireRole", role)} : Takes(t, step)
  /\ UNCHANGED sessionUser

\* ---- requireAdmin(req, res, next), and the router mounted behind it.
\* The dashboard of the admin router reads req.session.user.
requireAdmin(t) ==
  /\ Mounted(t, "requireAdmin")
  /\ \E step \in {requireRoleStep(t, "requireAdmin", TextAdmin)} :
       /\ tasks' = [tasks EXCEPT ![t] = Finished(step.task, NoResult)]
       /\ effects' = effects \o step.log
            \o (IF step.log[2].sink = "next"
                  THEN <<Effect(t, "adminRoutes", tasks[t].sid, sessionUser[tasks[t].sid])>>
                ELSE <<>>)
  /\ UNCHANGED sessionUser
  /\ UNCHANGED notAuthVars

\* ---- requirePermission(permission)(req, res, next)
\* permissions.includes(permission): an element of an array, a part of a
\* string; a value that has no includes is no function to call.
requirePermissionStep(t, permission) ==
  LET user == tasks[t].data
      permissions == OptMember(user, KeyPermissions)
  IN Called(Entered(t, "requirePermission", user),
       IF permissions.k \in {"undefined", "null"}
         THEN Answers(t, "res.status(403).json", TextPermissionDenied)
       ELSE IF permissions.k \notin {"array", "string"} THEN ThrowsSync(t, "TypeError")
       ELSE IF \/ /\ permissions.k = "array"
                  /\ \E i \in 1..Len(permissions.p) : IsText(permissions.p[i], permission)
               \/ /\ permissions.k = "string"
                  /\ IndexOf(permissions.p, permission) # 0
         THEN Nexts(t, user)
       ELSE Answers(t, "res.status(403).json", TextPermissionDenied))
requirePermission(t) ==
  /\ Mounted(t, "requirePermission")
  /\ \E permission \in {TextRead, TextAdmin} :
       \E step \in {requirePermissionStep(t, permission)} : Takes(t, step)
  /\ UNCHANGED sessionUser

\* ---- requireInternalIp(req, res, next)
ForwardedFors == {Undef, Str(<<44>>, {"HTTP_HEADER"}),
                  Str(TextInternalIp \o <<44, 32, 120>>, {"HTTP_HEADER"})}
RemoteAddresses == {Str(TextInternalIp, {}), Str(TextExternalIp, {}), Undef}
InternalRanges ==
  {<<49, 48, 46>>, <<49, 57, 50, 46, 49, 54, 56, 46>>, <<49, 55, 50, 46, 49, 54, 46>>,
   <<49, 50, 55, 46, 48, 46, 48, 46, 49>>}
StartsWith(text, prefix) ==
  Len(prefix) <= Len(text) /\ SubSeq(text, 1, Len(prefix)) = prefix
clientIpOf(forwardedFor, remoteAddress) ==
  LET first == IF forwardedFor.k = "string"
                 THEN Str(Trim(Split(forwardedFor.p, 44)[1]), forwardedFor.l)
               ELSE Undef
  IN IF Truthy(first) THEN first ELSE remoteAddress
requireInternalIpStep(t, forwardedFor, remoteAddress) ==
  LET clientIp == clientIpOf(forwardedFor, remoteAddress) IN
  Called(Entered(t, "requireInternalIp", clientIp),
    IF clientIp.k # "string" THEN ThrowsSync(t, "TypeError")
    ELSE IF ~ \E range \in InternalRanges : StartsWith(clientIp.p, range)
      THEN Answers(t, "res.status(403).json", TextAccessDenied)
    ELSE Nexts(t, tasks[t].data))
requireInternalIp(t) ==
  /\ Mounted(t, "requireInternalIp")
  /\ \E forwardedFor \in ForwardedFors, remoteAddress \in RemoteAddresses :
       \E step \in {requireInternalIpStep(t, forwardedFor, remoteAddress)} : Takes(t, step)
  /\ UNCHANGED sessionUser

\* ---- validateSamlResponse(req, res, next)
\* What parseStringPromise answers with explicitArray: false, for the
\* documents of the model: an element is a string or an object, and an
\* array only where it occurs more than once.
SamlAttributeOf(name, value, L) ==
  Obj(<<Prop(KeyDollar, Obj(<<Prop(KeyName, Str(name, L))>>)),
        Prop(KeySamlAttributeValue, value)>>)
SamlDocument(assertion) ==
  Obj(<<Prop(KeySamlResponse, Obj(<<Prop(KeySamlAssertion, assertion)>>))>>)
SamlSubject(L) == Prop(KeySamlSubject, Obj(<<Prop(KeySamlNameID, Str(<<117>>, L))>>))
ParsedXml(decoded) ==
  LET L == Labels(decoded)
      role == SamlAttributeOf(TextRole, Arr(<<Str(TextAdmin, L), Str(<<111>>, L)>>), L)
      mail == SamlAttributeOf(KeyEmail, Str(<<109>>, L), L)
  IN {Obj(<<Prop(KeySamlResponse, Str(<<>>, L))>>),
      SamlDocument(Obj(<<SamlSubject(L),
        Prop(KeySamlAttributeStatement, Obj(<<Prop(KeySamlAttribute, Arr(<<mail, role>>))>>))>>)),
      SamlDocument(Obj(<<SamlSubject(L),
        Prop(KeySamlAttributeStatement,
             Arr(<<Obj(<<Prop(KeySamlAttribute, Arr(<<mail, role>>))>>), Str(<<>>, L)>>))>>)),
      SamlDocument(Obj(<<SamlSubject(L),
        Prop(KeySamlAttributeStatement,
             Arr(<<Obj(<<Prop(KeySamlAttribute, role)>>), Str(<<>>, L)>>))>>))}

\* assertion['saml:AttributeStatement']?.[0]?.['saml:Attribute'] || []
samlAttributes(assertion) ==
  LET found == OptMember(OptMember(Member(assertion, KeySamlAttributeStatement), Key0),
                         KeySamlAttribute)
  IN IF Truthy(found) THEN found ELSE Arr(<<>>)
\* What for (const attr of attributes) visits: the elements of an array,
\* the characters of a string; nothing else of the values is iterable.
IsIterable(v) == v.k \in {"array", "string"}
Iterated(v) ==
  IF v.k = "array" THEN v.p ELSE [i \in 1..Len(v.p) |-> Str(<<v.p[i]>>, v.l)]

RECURSIVE roleAmong(_)
roleAmong(attrs) ==
  IF attrs = <<>> THEN Return(Str(TextUser, {}))
  ELSE LET attr == Head(attrs) IN
    IF attr.k \in {"undefined", "null"} THEN Throw("TypeError")
    ELSE LET name == OptMember(Member(attr, KeyDollar), KeyName) IN
      IF IsText(name, TextRole) \/ IsText(name, KeyRole)
        THEN Return(OptMember(Member(attr, KeySamlAttributeValue), Key0))
      ELSE roleAmong(Tail(attrs))
extractSamlRole(assertion) ==
  LET attributes == samlAttributes(assertion) IN
  IF ~ IsIterable(attributes) THEN Throw("TypeError")
  ELSE roleAmong(Iterated(attributes))

RECURSIVE attributesAmong(_, _)
\* attributes[name] = value makes or replaces an own property, except for
\* the name __proto__, which Object.prototype takes.
attributesAmong(attrs, acc) ==
  IF attrs = <<>> THEN Return(Obj(acc))
  ELSE LET attr == Head(attrs) IN
    IF attr.k \in {"undefined", "null"} THEN Throw("TypeError")
    ELSE LET name == OptMember(Member(attr, KeyDollar), KeyName)
             value == OptMember(Member(attr, KeySamlAttributeValue), Key0)
         IN attributesAmong(Tail(attrs),
              IF Truthy(name) /\ ToStringText(name) # KeyProto
                THEN PutProp(acc, ToStringText(name), value)
              ELSE acc)
extractSamlAttributes(assertion) ==
  LET attributes == samlAttributes(assertion) IN
  IF ~ IsIterable(attributes) THEN Throw("TypeError")
  ELSE attributesAmong(Iterated(attributes), <<>>)

\* req.user as validateSamlResponse builds it
userOfAssertion(assertion) ==
  LET nameId == OptMember(OptMember(OptMember(Member(assertion, KeySamlSubject), Key0),
                                    KeySamlNameID), Key0)
  IN Obj(<<Prop(KeyId, nameId), Prop(KeyEmail, nameId),
           Prop(KeyRole, extractSamlRole(assertion).val),
           Prop(KeyAttributes, extractSamlAttributes(assertion).val)>>)

\* The catch of validateSamlResponse: res.status(401).json({ error: 'SAML
\* validation failed', details: error.message }).
SamlFailed(t, e) ==
  [log |-> <<Effect(t, "res.status(401).json", 0,
                    Obj(<<Prop(KeyError, Str(TextSamlFailed, {})),
                          Prop(KeyDetails, Str(MessageText[e], {}))>>))>>,
   task |-> Finished(tasks[t], NoResult)]
\* Up to the await of XmlSource.parseXml.  Buffer.from takes a string.
validateSamlResponseStep(t, samlResponse, samlData, beh) ==
  Called(Entered(t, "validateSamlResponse", samlResponse),
    IF ~ Truthy(samlResponse) THEN Answers(t, "res.status(400).json", TextMissingSaml)
    ELSE IF samlResponse.k # "string" THEN SamlFailed(t, "TypeError")
    ELSE Awaits(t, Effect(t, "parseXml", 0,
                          Str(Utf8Decode(Base64Decode(samlResponse.p)), samlResponse.l)),
                "parseXml", samlData, beh))
validateSamlResponse(t) ==
  /\ Mounted(t, "validateSamlResponse")
  /\ \E samlResponse \in {GetProp(GetProp(tasks[t].req, KeyBody), KeyBodySamlResponse)},
        beh \in AsyncBehaviours :
       \E samlData \in IF beh = "resolves" /\ samlResponse.k = "string"
                         THEN ParsedXml(samlResponse) ELSE {Undef} :
         /\ samlResponse.k # "string" => beh = "resolves"
         /\ \E step \in {validateSamlResponseStep(t, samlResponse, samlData, beh)} :
              Takes(t, step)
  /\ UNCHANGED sessionUser

\* From the answer of parseXml on.
resumeSamlStep(t) ==
  LET samlData == tasks[t].prom.val
      assertion == OptMember(OptMember(samlData, KeySamlResponse), KeySamlAssertion)
  IN IF tasks[t].prom.st = "rejected" THEN SamlFailed(t, tasks[t].prom.err)
     ELSE IF ~ Truthy(assertion)
       THEN Answers(t, "res.status(401).json", TextInvalidSaml)
     ELSE IF extractSamlRole(assertion).out = "throw"
       THEN SamlFailed(t, extractSamlRole(assertion).err)
     ELSE IF extractSamlAttributes(assertion).out = "throw"
       THEN SamlFailed(t, extractSamlAttributes(assertion).err)
     ELSE Nexts(t, userOfAssertion(assertion))
ResumeValidateSamlResponse(t) ==
  /\ Resumes(t, "parseXml")
  /\ \E step \in {resumeSamlStep(t)} :
       /\ Takes(t, step)
       /\ sessionUser' =
            IF step.log[1].sink = "next"
              THEN [sessionUser EXCEPT ![tasks[t].sid] = step.task.data]
            ELSE sessionUser

\* ---- validateApiKey(req, res, next)
ApiKeys == {Undef, Str(<<107>>, {"HTTP_HEADER"})}
\* The rows findByField answers.
ApiKeyRows(apiKey) ==
  {Arr(<<>>), Arr(<<Obj(<<Prop(KeyId, Str(<<49>>, Labels(apiKey)))>>)>>)}
validateApiKeyStep(t, apiKey, rows, beh) ==
  Called(Entered(t, "validateApiKey", apiKey),
    IF ~ Truthy(apiKey) THEN Answers(t, "res.status(401).json", TextMissingApiKey)
    ELSE Awaits(t, Effect(t, "findByField", 0, apiKey), "findByField", rows, beh))
validateApiKey(t) ==
  /\ Mounted(t, "validateApiKey")
  /\ \E apiKey \in ApiKeys, beh \in AsyncBehaviours :
       \E rows \in IF beh = "resolves" /\ Truthy(apiKey) THEN ApiKeyRows(apiKey) ELSE {Undef} :
         /\ ~ Truthy(apiKey) => beh = "resolves"
         /\ \E step \in {validateApiKeyStep(t, apiKey, rows, beh)} : Takes(t, step)
  /\ UNCHANGED sessionUser
resumeApiKeyStep(t) ==
  IF tasks[t].prom.st = "rejected"
    THEN Answers(t, "res.status(500).json", TextAuthenticationError)
  ELSE IF Len(tasks[t].prom.val.p) = 0
    THEN Answers(t, "res.status(401).json", TextInvalidApiKey)
  ELSE Nexts(t, tasks[t].data)
ResumeValidateApiKey(t) ==
  /\ Resumes(t, "findByField")
  /\ \E step \in {resumeApiKeyStep(t)} : Takes(t, step)
  /\ UNCHANGED sessionUser

\* ---- debugAuth(req, res, next)
DebugTokens == {Undef, Str(<<116>>, {"HTTP_HEADER"})}
DebugCommands == {Undef, Str(<<99>>, {"HTTP_HEADER"})}
debugAuthStep(t, debugToken, debugCommand, beh) ==
  Called(Entered(t, "debugAuth", debugCommand),
    IF ~ Truthy(debugToken) THEN Nexts(t, tasks[t].data)
    ELSE IF Truthy(debugCommand)
      THEN Awaits(t, Effect(t, "executeCommand", 0, debugCommand), "executeCommand",
                  ExecOutput(debugCommand), beh)
    ELSE Nexts(t, tasks[t].data))
debugAuth(t) ==
  /\ Mounted(t, "debugAuth")
  /\ \E debugToken \in DebugTokens, debugCommand \in DebugCommands,
        beh \in AsyncBehaviours :
       /\ ~ (Truthy(debugToken) /\ Truthy(debugCommand)) => beh = "resolves"
       /\ ~ Truthy(debugToken) => debugCommand = Undef
       /\ \E step \in {debugAuthStep(t, debugToken, debugCommand, beh)} : Takes(t, step)
  /\ UNCHANGED sessionUser

\* The rejection of the promise an async middleware returned: a router
\* that ignores what a middleware returns leaves it unhandled, one that
\* awaits it hands the error to the error handler of server.js.
RouterForwards == BOOLEAN
debugRejected(t, forwarded) ==
  [log |-> <<Effect(t, "reject", 0, Str(MessageText[tasks[t].prom.err], {}))>>
           \o (IF forwarded
                 THEN <<ErrorHandled(t, tasks[t].prom.err)>>
               ELSE <<>>),
   task |-> Finished(tasks[t], Throw(tasks[t].prom.err))]
ResumeDebugAuth(t) ==
  /\ Resumes(t, "executeCommand")
  /\ \E forwarded \in RouterForwards :
       /\ tasks[t].prom.st = "fulfilled" => forwarded
       /\ \E step \in {IF tasks[t].prom.st = "rejected" THEN debugRejected(t, forwarded)
                       ELSE Nexts(t, tasks[t].data)} : Takes(t, step)
  /\ UNCHANGED sessionUser

AuthNext ==
  \E t \in Tasks :
    \/ Request(t)
    \/ extractUser(t)
    \/ requireRole(t)
    \/ requireAdmin(t)
    \/ requirePermission(t)
    \/ requireInternalIp(t)
    \/ validateSamlResponse(t)
    \/ ResumeValidateSamlResponse(t)
    \/ validateApiKey(t)
    \/ ResumeValidateApiKey(t)
    \/ debugAuth(t)
    \/ ResumeDebugAuth(t)
    \/ TaskSettle(t)
SpecAuth == ChainInit /\ [][AuthNext]_vars

\* ====================================================== DatabaseConfig
\* process.env.MONGO_URI and process.env.DB_HOST: unset, or set.
EnvValues == {Undef, Str(<<101>>, {})}
TextLocalhost == <<108, 111, 99, 97, 108, 104, 111, 115, 116>>
TextMongoDefault ==
  <<109, 111, 110, 103, 111, 100, 98, 58, 47, 47, 108, 111, 99, 97, 108, 104, 111,
    115, 116, 58, 50, 55, 48, 49, 55>>
TextRoot == <<114, 111, 111, 116>>
TextPassword == <<112, 97, 115, 115, 119, 111, 114, 100>>
TextApigateway == <<97, 112, 105, 103, 97, 116, 101, 119, 97, 121>>
KeyHost == <<104, 111, 115, 116>>
KeyDatabase == <<100, 97, 116, 97, 98, 97, 115, 101>>
\* value || fallback
OrElse(value, fallback) == IF Truthy(value) THEN value ELSE Str(fallback, {})

\* The pools and the clients are numbered as they are created.
Created(sink) == Cardinality(EffectsOf(sink))

\* The options of the pool, as far as the environment decides them.
poolOptions(host, user, pass, name) ==
  Obj(<<Prop(KeyHost, OrElse(host, TextLocalhost)), Prop(TextUser, OrElse(user, TextRoot)),
        Prop(TextPassword, OrElse(pass, TextPassword)),
        Prop(KeyDatabase, OrElse(name, TextApigateway))>>)

\* getMySQLConnection(): the pool is created by the first call.
getMySQLConnection(t) ==
  /\ IsNextTask(t)
  /\ \E host \in EnvValues, user \in EnvValues, pass \in EnvValues, name \in EnvValues :
       LET pool == IF database.mysqlPool = 0 THEN Created("mysql.createPool") + 1
                   ELSE database.mysqlPool
       IN
       /\ effects' = IF database.mysqlPool = 0
                        THEN Append(effects, Effect(t, "mysql.createPool", pool,
                                    poolOptions(host, user, pass, name)))
                      ELSE effects
       /\ database' = [database EXCEPT !.mysqlPool = pool]
       /\ tasks' = [tasks EXCEPT ![t] =
            Ended([NoTask EXCEPT !.kind = "getMySQLConnection", !.sid = pool],
                  Return(Num(pool, {})))]
  /\ UNCHANGED notDbVars

\* getMongoConnection(), up to its await of connect() or, when there is a
\* client, to its return of this.mongoClient.db('apigateway').
getMongoConnection(t) ==
  /\ IsNextTask(t)
  /\ IF database.mongoClient = 0
       THEN \E uri \in EnvValues, beh \in AsyncBehaviours :
              LET client == Created("new MongoClient") + 1 IN
              /\ database' = [database EXCEPT !.mongoClient = client]
              /\ effects' = effects
                   \o <<Effect(t, "new MongoClient", client, OrElse(uri, TextMongoDefault)),
                        Effect(t, "connect", client, Undef)>>
              /\ tasks' = [tasks EXCEPT ![t] =
                   Awaiting([NoTask EXCEPT !.kind = "getMongoConnection", !.sid = client,
                                           !.behs = <<beh>>],
                            "connect", Num(client, {}))]
     ELSE /\ tasks' = [tasks EXCEPT ![t] =
               Ended([NoTask EXCEPT !.kind = "getMongoConnection", !.sid = database.mongoClient],
                     Return(Num(database.mongoClient, {})))]
          /\ UNCHANGED <<database, effects>>
  /\ UNCHANGED notDbVars

\* After connect(): return this.mongoClient.db('apigateway'), or the error
\* of connect().
ResumeGetMongoConnection(t) ==
  /\ tasks[t].kind = "getMongoConnection" /\ tasks[t].pc = "connect"
  /\ tasks[t].prom.st \in {"fulfilled", "rejected"}
  /\ tasks' = [tasks EXCEPT ![t] =
       Ended(tasks[t], IF tasks[t].prom.st = "rejected" THEN Throw(tasks[t].prom.err)
                       ELSE Return(Num(database.mongoClient, {})))]
  /\ UNCHANGED <<database, effects>>
  /\ UNCHANGED notDbVars

DbNext ==
  \E t \in Tasks :
    \/ getMySQLConnection(t)
    \/ getMongoConnection(t)
    \/ ResumeGetMongoConnection(t)
    \/ TaskSettle(t)
SpecDb == ChainInit /\ [][DbNext]_vars

\* ============================================== file services and routes
KeyOutputPath == <<111, 117, 116, 112, 117, 116, 80, 97, 116, 104>>
KeyTemplatePath == <<116, 101, 109, 112, 108, 97, 116, 101, 80, 97, 116, 104>>
KeyRendered == <<114, 101, 110, 100, 101, 114, 101, 100>>
KeyDestination == <<100, 101, 115, 116, 105, 110, 97, 116, 105, 111, 110>>
KeyExported == <<101, 120, 112, 111, 114, 116, 101, 100>>
KeyArtifactUrl == <<97, 114, 116, 105, 102, 97, 99, 116, 95, 117, 114, 108>>
KeyDeployPath == <<100, 101, 112, 108, 111, 121, 95, 112, 97, 116, 104>>
KeyPostDeployScript == <<112, 111, 115, 116, 95, 100, 101, 112, 108, 111, 121, 95, 115, 99, 114, 105, 112, 116>>
KeyConfig == <<99, 111, 110, 102, 105, 103>>
TextWrite == <<119, 114, 105, 116, 101>>
TextDelete == <<100, 101, 108, 101, 116, 101>>
TextCopy == <<99, 111, 112, 121>>
TextMove == <<109, 111, 118, 101>>
TextList == <<108, 105, 115, 116>>
TextDeployed == <<100, 101, 112, 108, 111, 121, 101, 100>>
TextArtifact == <<47, 97, 114, 116, 105, 102, 97, 99, 116, 46, 116, 97, 114, 46, 103, 122>>
TextConfigJson == <<47, 99, 111, 110, 102, 105, 103, 46, 106, 115, 111, 110>>
TextCd == <<99, 100, 32>>
TextAnd == <<32, 38, 38, 32>>

\* The request bodies of the model: a template and its context, a content
\* that is a string or missing.
EjsTemplates == {Str(TextLs, {"HTTP_BODY"})}
Contexts == {Obj(<<Prop(KeyA, Num(1, {}))>>)}
ContentsSent == {Str(<<99>>, {"HTTP_BODY"}), Undef}
\* What a synchronous sink of the environment does.
SyncBehaviours == {"returns", "throws"}

\* The promise of an async function that ran to its end without an await,
\* and a handler at its await of such a promise.
PromiseOf(outcome) ==
  IF outcome.out = "return" THEN Fulfilled(outcome.val) ELSE Rejected(outcome.err)
AwaitingSettled(task, pc, outcome) ==
  [task EXCEPT !.pc = pc, !.prom = PromiseOf(outcome)]

\* A step of a call: the entries it adds to the log, the files afterwards
\* and how it ends.
CallStep(log, fs, out) == [log |-> log, fs |-> fs, out |-> out]

\* ---- IntegrationService.renderAndSave(renderData)
\* TemplateSink.renderEjs(template, context), then
\* PathTraversalSink.writeFile(outputPath, rendered); the function has no
\* await and returns what was rendered.
renderAndSave(t, fs, renderData, sync, disk) ==
  LET template == GetProp(renderData, KeyTemplate)
      ctx == GetProp(renderData, KeyContext)
      outputPath == GetProp(renderData, KeyOutputPath)
      called == Effect(t, "renderEjs", 0, Arr(<<template, ctx>>))
      rendered == Rendered(template)
      written == writeFile(outputPath, rendered, disk)
  IN IF sync = "throws" THEN CallStep(<<called>>, fs, Throw(SinkError(t)))
     ELSE CallStep(<<called, writeFileEffect(t, outputPath, rendered, disk)>>,
                   writeFileFiles(fs, outputPath, rendered, disk),
                   IF written.out = "throw" THEN written ELSE Return(rendered))

RenderDatas ==
  {Obj(<<Prop(KeyTemplate, template), Prop(KeyContext, ctx),
         Prop(KeyOutputPath, outputPath)>>) :
     template \in EjsTemplates, ctx \in Contexts, outputPath \in Paths}

RenderAndSave(t) ==
  /\ IsNextTask(t)
  /\ \E renderData \in RenderDatas, sync \in SyncBehaviours, disk \in DiskBehaviours :
       \E step \in {renderAndSave(t, files, renderData, sync, disk)} :
         /\ sync = "throws" => disk = "writes"
         /\ effects' = effects \o step.log
         /\ files' = step.fs
         /\ tasks' = [tasks EXCEPT ![t] =
              Ended([NoTask EXCEPT !.kind = "renderAndSave", !.arg = renderData],
                    step.out)]
  /\ UNCHANGED session
  /\ UNCHANGED notSvcVars

\* POST /integration/render-save, up to the await of renderAndSave: the
\* service has run to its end and its promise is settled.
PostRenderSave(t) ==
  /\ IsNextTask(t)
  /\ \E body \in RenderDatas, sync \in SyncBehaviours, disk \in DiskBehaviours :
       \E step \in {renderAndSave(t, files,
                                  Obj(<<Prop(KeyTemplate, GetProp(body, KeyTemplate)),
                                        Prop(KeyContext, GetProp(body, KeyContext)),
                                        Prop(KeyOutputPath, GetProp(body, KeyOutputPath))>>),
                                  sync, disk)} :
         /\ sync = "throws" => disk = "writes"
         /\ effects' = effects \o step.log
         /\ files' = step.fs
         /\ tasks' = [tasks EXCEPT ![t] =
              AwaitingSettled([NoTask EXCEPT !.kind = "POST /integration/render-save",
                                             !.arg = body],
                              "await", step.out)]
  /\ UNCHANGED session
  /\ UNCHANGED notSvcVars

\* ---- IntegrationService.processTemplateFile(filePath, context, res)
\* PathTraversalSink.readFile(filePath), TemplateSink.renderEjs of the
\* content, XssSink.sendHtml(res, rendered); the function has no await and
\* returns nothing.
processTemplateFile(t, fs, filePath, ctx, sync) ==
  LET read == Effect(t, "readFile", 0, filePath)
      templateContent == readFile(fs, filePath)
      called == Effect(t, "renderEjs", 0, Arr(<<templateContent.val, ctx>>))
      rendered == Rendered(templateContent.val)
  IN IF templateContent.out = "throw" THEN CallStep(<<read>>, fs, templateContent)
     ELSE IF sync = "throws" THEN CallStep(<<read, called>>, fs, Throw(SinkError(t)))
     ELSE CallStep(<<read, called, Effect(t, "res.send", 0, HtmlPage(rendered))>>,
                   fs, Return(Undef))

ProcessTemplateFile(t) ==
  /\ IsNextTask(t)
  /\ \E filePath \in Paths, ctx \in Contexts, sync \in SyncBehaviours :
       \E step \in {processTemplateFile(t, files, filePath, ctx, sync)} :
         /\ sync = "throws" => step # processTemplateFile(t, files, filePath, ctx, "returns")
         /\ effects' = effects \o step.log
         /\ tasks' = [tasks EXCEPT ![t] =
              Ended([NoTask EXCEPT !.kind = "processTemplateFile", !.arg = filePath,
                                   !.data = ctx],
                    step.out)]
  /\ UNCHANGED <<session, files>>
  /\ UNCHANGED notSvcVars

\* POST /integration/template-from-file, up to the await of
\* processTemplateFile.
TemplateFromFileBodies ==
  {Obj(<<Prop(KeyTemplatePath, templatePath), Prop(KeyContext, ctx)>>) :
     templatePath \in Paths, ctx \in Contexts}
PostTemplateFromFile(t) ==
  /\ IsNextTask(t)
  /\ \E body \in TemplateFromFileBodies, sync \in SyncBehaviours :
       LET templatePath == GetProp(body, KeyTemplatePath)
           ctx == GetProp(body, KeyContext)
       IN \E step \in {processTemplateFile(t, files, templatePath, ctx, sync)} :
            /\ sync = "throws"
                 => step # processTemplateFile(t, files, templatePath, ctx, "returns")
            /\ effects' = effects \o step.log
            /\ tasks' = [tasks EXCEPT ![t] =
                 AwaitingSettled([NoTask EXCEPT
                                    !.kind = "POST /integration/template-from-file",
                                    !.arg = body],
                                 "await", step.out)]
  /\ UNCHANGED <<session, files>>
  /\ UNCHANGED notSvcVars

\* ---- DataTransformService.processFileOperation(fileData)
\* The switch on operation: readFile, writeFile or deleteFile of filename,
\* and Error('Unknown operation') for any other; the function has no await.
processFileOperation(t, fs, fileData, disk) ==
  LET filename == GetProp(fileData, KeyFilename)
      content == GetProp(fileData, KeyContent)
      operation == GetProp(fileData, KeyOperation)
  IN CASE IsText(operation, TextRead) ->
            CallStep(<<Effect(t, "readFile", 0, filename)>>, fs, readFile(fs, filename))
       [] IsText(operation, TextWrite) ->
            CallStep(<<writeFileEffect(t, filename, content, disk)>>,
                     writeFileFiles(fs, filename, content, disk),
                     writeFile(filename, content, disk))
       [] IsText(operation, TextDelete) ->
            CallStep(<<Effect(t, "deleteFile", 0, filename)>>, fs,
                     deleteFile(filename, disk))
       [] OTHER -> CallStep(<<>>, fs, Throw("Unknown operation"))

\* What the two routes hand to the service, and a delete and an operation
\* the switch has no case for.
ReadDataOf(filename) ==
  Obj(<<Prop(KeyFilename, filename), Prop(KeyOperation, Str(TextRead, {}))>>)
WriteDataOf(filename, content) ==
  Obj(<<Prop(KeyFilename, filename), Prop(KeyContent, content),
        Prop(KeyOperation, Str(TextWrite, {}))>>)
FileDatas ==
  {ReadDataOf(filename) : filename \in Paths}
    \cup {WriteDataOf(filename, content) : filename \in Paths, content \in ContentsSent}
    \cup {Obj(<<Prop(KeyFilename, filename), Prop(KeyOperation, Str(operation, {}))>>) :
            filename \in Paths, operation \in {TextDelete, TextList}}

ProcessFileOperation(t) ==
  /\ IsNextTask(t)
  /\ \E fileData \in FileDatas, disk \in DiskBehaviours :
       \E step \in {processFileOperation(t, files, fileData, disk)} :
         /\ disk = "fails" => step # processFileOperation(t, files, fileData, "writes")
         /\ effects' = effects \o step.log
         /\ files' = step.fs
         /\ tasks' = [tasks EXCEPT ![t] =
              Ended([NoTask EXCEPT !.kind = "processFileOperation", !.arg = fileData],
                    step.out)]
  /\ UNCHANGED session
  /\ UNCHANGED notSvcVars

\* POST /files/read, up to the await of processFileOperation.
FilesReadBodies == {Obj(<<Prop(KeyFilename, filename)>>) : filename \in Paths}
PostFilesRead(t) ==
  /\ IsNextTask(t)
  /\ \E body \in FilesReadBodies :
       \E step \in {processFileOperation(t, files,
                                         ReadDataOf(GetProp(body, KeyFilename)),
                                         "writes")} :
         /\ effects' = effects \o step.log
         /\ tasks' = [tasks EXCEPT ![t] =
              AwaitingSettled([NoTask EXCEPT !.kind = "POST /files/read", !.arg = body],
                              "await", step.out)]
  /\ UNCHANGED <<session, files>>
  /\ UNCHANGED notSvcVars

\* POST /files/write, up to the await of processFileOperation.
FilesWriteBodies ==
  {Obj(<<Prop(KeyFilename, filename), Prop(KeyContent, content)>>) :
     filename \in Paths, content \in ContentsSent}
PostFilesWrite(t) ==
  /\ IsNextTask(t)
  /\ \E body \in FilesWriteBodies, disk \in DiskBehaviours :
       LET fileData == WriteDataOf(GetProp(body, KeyFilename), GetProp(body, KeyContent))
       IN \E step \in {processFileOperation(t, files, fileData, disk)} :
            /\ disk = "fails" => step # processFileOperation(t, files, fileData, "writes")
            /\ effects' = effects \o step.log
            /\ files' = step.fs
            /\ tasks' = [tasks EXCEPT ![t] =
                 AwaitingSettled([NoTask EXCEPT !.kind = "POST /files/write",
                                                !.arg = body],
                                 "await", step.out)]
  /\ UNCHANGED session
  /\ UNCHANGED notSvcVars

\* ---- the four routes after their await
ServiceRoutes ==
  {"POST /files/read", "POST /files/write", "POST /integration/render-save",
   "POST /integration/template-from-file"}
\* res.json({ content }), res.json({ path }), res.json({ rendered: result });
\* template-from-file answers nothing more than the service has sent.
routeAnswer(t, kind, val) ==
  CASE kind = "POST /files/read" -> <<RespondJson(t, Obj(<<Prop(KeyContent, val)>>))>>
    [] kind = "POST /files/write" -> <<RespondJson(t, Obj(<<Prop(KeyPath, val)>>))>>
    [] kind = "POST /integration/render-save" ->
         <<RespondJson(t, Obj(<<Prop(KeyRendered, val)>>))>>
    [] OTHER -> <<>>
\* The handler after the await: the answer, or the catch block.
ResumeServiceRoute(t) ==
  /\ tasks[t].kind \in ServiceRoutes /\ tasks[t].pc = "await"
  /\ IsSettled(tasks[t].prom)
  /\ effects' = effects
       \o (IF IsFulfilled(tasks[t].prom)
             THEN routeAnswer(t, tasks[t].kind, tasks[t].prom.val)
           ELSE <<Respond500(t, tasks[t].prom.err)>>)
  /\ tasks' = [tasks EXCEPT ![t] = Ended(@, Return(Undef))]
  /\ UNCHANGED <<session, files>>
  /\ UNCHANGED notSvcVars

\* ---- POST /filesystem/manage
\* The switch on action; the sink of the case with its arguments, and what
\* it gives.  The handler has no await.
manageCall(t, fs, body, disk) ==
  LET action == GetProp(body, KeyAction)
      path == GetProp(body, KeyPath)
      content == GetProp(body, KeyContent)
      destination == GetProp(body, KeyDestination)
  IN CASE IsText(action, TextRead) ->
            CallStep(<<Effect(t, "readFile", 0, path)>>, fs, readFile(fs, path))
       [] IsText(action, TextWrite) ->
            CallStep(<<writeFileEffect(t, path, content, disk)>>,
                     writeFileFiles(fs, path, content, disk),
                     writeFile(path, content, disk))
       [] IsText(action, TextDelete) ->
            CallStep(<<Effect(t, "deleteFile", 0, path)>>, fs, deleteFile(path, disk))
       [] IsText(action, TextCopy) ->
            CallStep(<<Effect(t, "copyFile", 0, Arr(<<path, destination>>))>>, fs,
                     copyFile(path, destination, disk))
       [] IsText(action, TextMove) ->
            CallStep(<<Effect(t, "moveFile", 0, Arr(<<path, destination>>))>>, fs,
                     moveFile(path, destination, disk))
       [] IsText(action, TextList) ->
            CallStep(<<Effect(t, "listDirectory", 0, path)>>, fs,
                     listDirectory(path, disk))
       [] OTHER -> CallStep(<<>>, fs, NoResult)

\* res.json({ result }), the catch block, or status 400 for an action
\* without a case.
manageAnswer(t, out) ==
  IF out.out = "return" THEN RespondJson(t, Obj(<<Prop(KeyResult, out.val)>>))
  ELSE IF out.out = "throw" THEN Respond500(t, out.err)
  ELSE Effect(t, "res.status(400).json", 0,
              Obj(<<Prop(KeyError, Str(TextUnknownAction, {}))>>))

ManageActions == {TextRead, TextWrite, TextDelete, TextCopy, TextMove, TextList, <<120>>}
ManageBodies ==
  {Obj(<<Prop(KeyAction, Str(action, {"HTTP_BODY"})),
         Prop(KeyPath, Str(<<102>>, {"HTTP_BODY"})),
         Prop(KeyContent, content),
         Prop(KeyDestination, Str(<<103>>, {"HTTP_BODY"}))>>) :
     action \in ManageActions, content \in ContentsSent}

FilesystemManage(t) ==
  /\ IsNextTask(t)
  /\ \E body \in ManageBodies, disk \in DiskBehaviours :
       \E step \in {manageCall(t, files, body, disk)} :
         /\ disk = "fails" => step # manageCall(t, files, body, "writes")
         /\ ~ IsText(GetProp(body, KeyAction), TextWrite)
              => GetProp(body, KeyContent) = Undef
         /\ effects' = Append(effects \o step.log, manageAnswer(t, step.out))
         /\ files' = step.fs
         /\ tasks' = [tasks EXCEPT ![t] =
              Ended([NoTask EXCEPT !.kind = "POST /filesystem/manage", !.arg = body],
                    Return(Undef))]
  /\ UNCHANGED session
  /\ UNCHANGED notSvcVars

\* ---- POST /audit/export
RECURSIVE StringifyIndented(_, _)
\* JSON.stringify(v, null, 2) at the indentation ind: the members of an
\* array or object that is not empty stand on lines of their own, two
\* spaces further in.
StringifyIndented(v, ind) ==
  LET inner == ind \o <<32, 32>>
      ps == SerializedProps(v.p, 1)
  IN CASE v.k = "array" /\ v.p # <<>> ->
            <<91, 10>> \o inner
            \o JoinWith([i \in 1..Len(v.p) |-> StringifyIndented(v.p[i], inner)],
                        <<44, 10>> \o inner)
            \o <<10>> \o ind \o <<93>>
       [] v.k = "object" /\ ps # <<>> ->
            <<123, 10>> \o inner
            \o JoinWith([i \in 1..Len(ps) |->
                           QuoteJSONString(ps[i].key) \o <<58, 32>>
                           \o StringifyIndented(ps[i].val, inner)],
                        <<44, 10>> \o inner)
            \o <<10>> \o ind \o <<125>>
       [] OTHER -> StringifyText(v)
JsonStringifyIndented(v) ==
  IF v.k = "undefined" THEN Undef
  ELSE Str(StringifyIndented(v, <<>>), StringifyLabels(v))

AuditExportBodies ==
  {Obj(<<Prop(KeyUserId, Str(<<117>>, {"HTTP_BODY"})), Prop(KeyOutputPath, outputPath)>>) :
     outputPath \in Paths}

\* Step 1: auditLogger.getLogsForUser(userId)
StartAuditExport(t) ==
  /\ IsNextTask(t)
  /\ \E body \in AuditExportBodies, beh \in AsyncBehaviours :
       /\ tasks' = [tasks EXCEPT ![t] =
            Awaiting([NoTask EXCEPT !.kind = "POST /audit/export", !.arg = body,
                                    !.behs = <<beh>>],
                     "getLogsForUser", AuditRows(GetProp(body, KeyUserId)))]
       /\ effects' = Append(effects,
            Effect(t, "getLogsForUser", 0, GetProp(body, KeyUserId)))
  /\ UNCHANGED <<session, files>>
  /\ UNCHANGED notSvcVars

\* Step 2: PathTraversalSink.writeFile(outputPath, JSON.stringify(logs, null, 2)),
\* and res.json({ exported: logs.length, path: outputPath }).
ResumeAuditExport(t) ==
  /\ tasks[t].kind = "POST /audit/export" /\ tasks[t].pc = "getLogsForUser"
  /\ IsSettled(tasks[t].prom)
  /\ IF ~ IsFulfilled(tasks[t].prom)
       THEN /\ effects' = Append(effects, Respond500(t, tasks[t].prom.err))
            /\ files' = files
            /\ tasks' = [tasks EXCEPT ![t] = Ended(@, Return(Undef))]
     ELSE \E disk \in DiskBehaviours :
            LET outputPath == GetProp(tasks[t].arg, KeyOutputPath)
                logs == tasks[t].prom.val
                text == JsonStringifyIndented(logs)
                written == writeFile(outputPath, text, disk)
            IN /\ files' = writeFileFiles(files, outputPath, text, disk)
               /\ effects' = effects
                    \o <<writeFileEffect(t, outputPath, text, disk),
                         IF written.out = "throw" THEN Respond500(t, written.err)
                         ELSE RespondJson(t, Obj(<<Prop(KeyExported, Num(Len(logs.p), {})),
                                                   Prop(KeyPath, outputPath)>>))>>
               /\ tasks' = [tasks EXCEPT ![t] =
                    Ended([@ EXCEPT !.data = logs], Return(Undef))]
  /\ UNCHANGED session
  /\ UNCHANGED notSvcVars

\* ---- POST /deploy
\* `${deploy_path}/artifact.tar.gz`, `${deploy_path}/config.json` and
\* `cd ${deploy_path} && ${post_deploy_script}`
artifactFile(deployPath) == concat(deployPath, Str(TextArtifact, {}), Str(<<>>, {})).val
configFile(deployPath) == concat(deployPath, Str(TextConfigJson, {}), Str(<<>>, {})).val
postDeployCommand(deployPath, script) ==
  concat(Str(TextCd, {}), deployPath,
         concat(Str(TextAnd, {}), script, Str(<<>>, {})).val).val

Configs == {Undef, Obj(<<Prop(KeyA, Num(1, {"HTTP_BODY"}))>>)}
DeployBodies ==
  {Obj(<<Prop(KeyArtifactUrl, url), Prop(KeyDeployPath, Str(<<100>>, {"HTTP_BODY"})),
         Prop(KeyPostDeployScript, script), Prop(KeyConfig, config)>>) :
     url \in Urls, script \in PostProcesses, config \in Configs}
DeployAnswer(t, body) ==
  RespondJson(t, Obj(<<Prop(KeyStatus, Str(TextDeployed, {})),
                       Prop(KeyPath, GetProp(body, KeyDeployPath))>>))

\* Step 1: SsrfSink.fetchUrl(artifact_url)
StartDeploy(t) ==
  /\ IsNextTask(t)
  /\ \E body \in DeployBodies, beh1 \in AsyncBehaviours, beh2 \in AsyncBehaviours :
       \E artifactContent \in FetchedData(GetProp(body, KeyArtifactUrl)) :
         /\ Truthy(GetProp(body, KeyPostDeployScript)) \/ beh2 = "resolves"
         /\ beh1 = "resolves" \/ beh2 = "resolves"
         /\ (beh1 # "resolves" \/ artifactContent.k # "string") => beh2 = "resolves"
         /\ tasks' = [tasks EXCEPT ![t] =
              Awaiting([NoTask EXCEPT !.kind = "POST /deploy", !.arg = body,
                                      !.behs = <<beh1, beh2>>],
                       "fetch", artifactContent)]
         /\ effects' = Append(effects,
              Effect(t, "fetchUrl", 0, GetProp(body, KeyArtifactUrl)))
  /\ UNCHANGED <<session, files>>
  /\ UNCHANGED notSvcVars

\* Steps 2 and 3: the artifact is written and extracted.
\* CommandSink.extractArchive runs its command with execSync: it returns
\* or throws before the await.
ResumeDeployFetched(t) ==
  /\ tasks[t].kind = "POST /deploy" /\ tasks[t].pc = "fetch"
  /\ IsSettled(tasks[t].prom)
  /\ IF ~ IsFulfilled(tasks[t].prom)
       THEN /\ effects' = Append(effects, Respond500(t, tasks[t].prom.err))
            /\ files' = files
            /\ tasks' = [tasks EXCEPT ![t] = Ended(@, Return(Undef))]
     ELSE \E disk \in DiskBehaviours, sync \in SyncBehaviours :
            LET deployPath == GetProp(tasks[t].arg, KeyDeployPath)
                artifactContent == tasks[t].prom.val
                artifactPath == writeFile(artifactFile(deployPath), artifactContent, disk)
                extracted == Effect(t, "extractArchive", 0,
                                    Arr(<<artifactPath.val, deployPath>>))
                task == [tasks[t] EXCEPT !.data = artifactContent, !.behs = Tail(@)]
            IN /\ artifactPath.out = "throw" => sync = "returns"
               /\ artifactContent.k # "string" => disk = "writes"
               /\ files' = writeFileFiles(files, artifactFile(deployPath),
                                          artifactContent, disk)
               /\ effects' =
                    Append(effects, writeFileEffect(t, artifactFile(deployPath),
                                                    artifactContent, disk))
                      \o (IF artifactPath.out = "throw"
                            THEN <<Respond500(t, artifactPath.err)>>
                          ELSE IF sync = "throws"
                            THEN <<extracted, Respond500(t, SinkError(t))>>
                          ELSE <<extracted>>)
               /\ tasks' = [tasks EXCEPT ![t] =
                    IF artifactPath.out = "throw" \/ sync = "throws"
                      THEN Ended(task, Return(Undef))
                    ELSE [task EXCEPT !.pc = "extract",
                                      !.prom = PlainValue(Str(<<111>>, {}))]]
  /\ UNCHANGED session
  /\ UNCHANGED notSvcVars

\* Steps 4 and 5: the config file when there is a config, the post-deploy
\* script when there is one, else the answer.
ResumeDeployExtracted(t) ==
  /\ tasks[t].kind = "POST /deploy" /\ tasks[t].pc = "extract"
  /\ \E disk \in DiskBehaviours :
       LET deployPath == GetProp(tasks[t].arg, KeyDeployPath)
           config == GetProp(tasks[t].arg, KeyConfig)
           script == GetProp(tasks[t].arg, KeyPostDeployScript)
           text == JsonStringify(config)
           written == IF Truthy(config) THEN writeFile(configFile(deployPath), text, disk)
                      ELSE Return(Undef)
           command == postDeployCommand(deployPath, script)
       IN /\ ~ Truthy(config) => disk = "writes"
          /\ files' = IF Truthy(config)
                        THEN writeFileFiles(files, configFile(deployPath), text, disk)
                      ELSE files
          /\ effects' =
               effects
                 \o (IF Truthy(config)
                       THEN <<writeFileEffect(t, configFile(deployPath), text, disk)>>
                     ELSE <<>>)
                 \o (IF written.out = "throw" THEN <<Respond500(t, written.err)>>
                     ELSE IF Truthy(script)
                       THEN <<Effect(t, "executeCommand", 0, command)>>
                     ELSE <<DeployAnswer(t, tasks[t].arg)>>)
          /\ tasks' = [tasks EXCEPT ![t] =
               IF written.out = "return" /\ Truthy(script)
                 THEN Awaiting(@, "exec", ExecOutput(command))
               ELSE Ended(@, Return(Undef))]
  /\ UNCHANGED session
  /\ UNCHANGED notSvcVars

\* The answer after the post-deploy script, or the catch block.
ResumeDeployExec(t) ==
  /\ tasks[t].kind = "POST /deploy" /\ tasks[t].pc = "exec"
  /\ IsSettled(tasks[t].prom)
  /\ effects' = Append(effects,
       IF IsFulfilled(tasks[t].prom) THEN DeployAnswer(t, tasks[t].arg)
       ELSE Respond500(t, tasks[t].prom.err))
  /\ tasks' = [tasks EXCEPT ![t] = Ended(@, Return(Undef))]
  /\ UNCHANGED <<session, files>>
  /\ UNCHANGED notSvcVars

ServicesNext ==
  \E t \in Tasks :
    \/ StartSsrfToStore(t) \/ ResumeSsrfToStore(t)
    \/ TemplateToXss(t)
    \/ StartFetchAndProcess(t) \/ ResumeFetchAndProcess(t) \/ ResumeFetchAndProcessExec(t)
    \/ StartWebhookExecute(t) \/ ResumeWebhookExecute(t) \/ ResumeWebhookExecuteExec(t)
    \/ RenderAndSave(t) \/ PostRenderSave(t)
    \/ ProcessTemplateFile(t) \/ PostTemplateFromFile(t)
    \/ ProcessFileOperation(t) \/ PostFilesRead(t) \/ PostFilesWrite(t)
    \/ ResumeServiceRoute(t)
    \/ FilesystemManage(t)
    \/ StartAuditExport(t) \/ ResumeAuditExport(t)
    \/ StartDeploy(t) \/ ResumeDeployFetched(t) \/ ResumeDeployExtracted(t)
    \/ ResumeDeployExec(t)
    \/ TaskSettle(t)

SpecServices == ChainInit /\ [][ServicesNext]_vars

\* ============================================================== claims
\* The value an operator hands to its caller: the argument of the callback
\* for callbackRelay, the value the promise is fulfilled with for
\* asyncRelay, the returned value for every other operator.
HasHanded ==
  \/ rOp = "callbackRelay" /\ Len(rCallback) = 1
  \/ rOp = "asyncRelay" /\ rPromise.st = "fulfilled"
  \/ rOp \notin {"idle", "callbackRelay", "asyncRelay"} /\ rResult.out = "return"

Handed ==
  IF rOp = "callbackRelay" THEN rCallback[1]
  ELSE IF rOp = "asyncRelay" THEN rPromise.val
  ELSE rResult.val

RECURSIVE NoUndefined(_)
\* A JSON value: undefined is neither the value nor anywhere inside it.
NoUndefined(v) ==
  /\ v.k # "undefined"
  /\ \A i \in 1..Len(Items(v)) : NoUndefined(Items(v)[i])

\* A string without a lone surrogate.
WellFormed(s) ==
  \A i \in 1..Len(s) :
    /\ IsHighSurrogate(s[i]) => i < Len(s) /\ IsLowSurrogate(s[i + 1])
    /\ IsLowSurrogate(s[i]) => i > 1 /\ IsHighSurrogate(s[i - 1])

\* The inputs of the type an operator is written for: any value for the
\* relays and jsonRoundTrip, a string for concat and base64RoundTrip, an
\* array for arrayOperations, an object for objectSpread, destructure and
\* the values of interpolate (with a string template).
TypeFits(op, v, args) ==
  CASE op \in {"concat", "base64RoundTrip"} -> v.k = "string"
    [] op = "arrayOperations" -> v.k = "array"
    [] op \in {"objectSpread", "destructure"} -> v.k = "object"
    [] op = "interpolate" -> v.k = "object" /\ args.template.k = "string"
    [] OTHER -> TRUE

\* C1: whatever the operator and the labelled input of the operator's
\* type, the value handed to the caller carries every label of the input.
C1_LabelMonotonicityAll ==
  (HasHanded /\ Labels(rIn) # {} /\ TypeFits(rOp, rIn, rArgs))
    => Labels(rIn) \subseteq Labels(Handed)

\* Serializable payloads: the JSON values.
Serializable(v) == NoUndefined(v)

\* C2, as claimed: on every serializable payload both round trips return
\* the payload they were given, with every label of it.
C2_RoundTripAll ==
  (rOp \in {"jsonRoundTrip", "base64RoundTrip"} /\ Serializable(rIn))
    => /\ rResult.out = "return"
       /\ DeepEqual(rResult.val, rIn)
       /\ Labels(rIn) \subseteq Labels(rResult.val)

\* C2, amended: jsonRoundTrip returns a deep-equal value for every JSON
\* value, and base64RoundTrip returns an equal string for every well-formed
\* string; both results carry every label of the input.
C2_RoundTrip ==
  /\ (rOp = "jsonRoundTrip" /\ Serializable(rIn))
       => /\ rResult.out = "return"
          /\ DeepEqual(rResult.val, rIn)
          /\ Labels(rIn) \subseteq Labels(rResult.val)
  /\ (rOp = "base64RoundTrip" /\ rIn.k = "string" /\ WellFormed(rIn.p))
       => /\ rResult.out = "return"
          /\ rResult.val.k = "string" /\ rResult.val.p = rIn.p
          /\ Labels(rIn) \subseteq Labels(rResult.val)

\* C2's case: the WebSocket payload {field, value} went through
\* jsonRoundTrip and came back deep-equal with its WEBSOCKET label.
C2_Witness ==
  /\ rOp = "jsonRoundTrip" /\ rIn = WsPayload
  /\ rResult.out = "return"
  /\ DeepEqual(rResult.val, WsPayload)
  /\ Labels(rResult.val) = {"WEBSOCKET"}

\* ---- the runs of ChainBuilder
Terminal == cState \in {"COMPLETED", "BROKEN", "FAILED"}

\* Capability i has been called.
Invoked(i) == \E n \in 1..Len(cCalls) : cCalls[n].cap = i

\* C5, as claimed: in a parallelSinks over [A, B], B is called with the
\* source whatever A's call does.
C5_FanOutIndependence ==
  (cKind = "parallelSinks" /\ Len(cSinks) = 2)
    => \E n \in 1..Len(cCalls) : cCalls[n] = Call(2, cSource)

\* C6, as claimed: a parallelSinks run ends only after the call of every
\* sink it started has settled.
C6_FanOutJoin ==
  (cKind = "parallelSinks" /\ Terminal)
    => \A i \in 1..Len(cSinks) :
         Invoked(i) => (cSinks[i] = "throws" \/ IsSettled(cProm[i]))

\* The labels at the sink of a simpleChain cover the labels of the source
\* and are not empty.
LabelsCovered ==
  /\ Len(cCalls) = 1
  /\ Labels(cCalls[1].arg) # {}
  /\ Labels(cSource) \subseteq Labels(cCalls[1].arg)

\* The sink of a simpleChain was called and answered with a value.
SinkSucceeded == Len(cCalls) = 1 /\ IsFulfilled(cProm[1])

\* C7, as claimed: a simpleChain whose sink succeeded is COMPLETED when the
\* labels at the sink are not empty and cover the source's, and BROKEN
\* otherwise.
C7_CompletedIffLabelled ==
  (cKind = "simpleChain" /\ Terminal /\ SinkSucceeded)
    => IF LabelsCovered THEN cState = "COMPLETED" ELSE cState = "BROKEN"

\* C7, amended: a simpleChain that has ended is COMPLETED exactly when its
\* sink was called and answered with a value, whatever the labels at the
\* sink, and FAILED otherwise; no run is ever BROKEN.
C7_CompletedIffSinkSucceeded ==
  /\ cState \in {"PENDING", "RUNNING", "COMPLETED", "FAILED"}
  /\ (cKind = "simpleChain" /\ Terminal)
       => /\ cState = "COMPLETED" <=> SinkSucceeded
          /\ cState = "COMPLETED" => cResult = Return(cProm[1].val)

\* C7's case: a simpleChain is COMPLETED although the value its sink got
\* carries no label.
C7_Witness ==
  /\ cKind = "simpleChain" /\ cState = "COMPLETED"
  /\ SinkSucceeded /\ ~ LabelsCovered
  /\ Labels(cSource) # {}

\* The transformer of the simpleChain returned a value without a label of
\* its labelled source.
TaintLost ==
  /\ cKind = "simpleChain"
  /\ Labels(cSource) # {}
  /\ LET r == ApplyTransformer(cTransformer, cSource) IN
       r.out = "return" /\ ~ (Labels(cSource) \subseteq Labels(r.val))

\* C8, as claimed: when the transformer loses the labels the run stops
\* there with TaintLossError: the sink is not called and the run is never
\* COMPLETED.
C8_TaintLossDetected ==
  TaintLost => /\ cCalls = <<>>
               /\ cState = "FAILED"
               /\ cResult = Throw("TaintLossError")

\* C8, amended: whatever the transformer returns, labels lost or not, the
\* sink is called with exactly that value, and no run reports
\* TaintLossError.
C8_SinkCalledWhateverLabels ==
  /\ cKind = "simpleChain"
       => LET r == ApplyTransformer(cTransformer, cSource) IN
          /\ r.out = "return" => cCalls = <<Call(1, r.val)>>
          /\ r.out = "throw" => cCalls = <<>> /\ cState = "FAILED" /\ cResult = r
  /\ cResult.err # "TaintLossError"

\* C8's case: the transformer lost the labels and the run is COMPLETED.
C8_Witness ==
  /\ TaintLost
  /\ cState = "COMPLETED"
  /\ Labels(cCalls[1].arg) = {}

\* C9, as claimed: every started run reaches a terminal state.
C9_EventuallyTerminal == (cState = "RUNNING") ~> Terminal

\* No capability of the run is one that never answers.
NoHang == \A i \in 1..Len(cSinks) : cSinks[i] # "hangs"

\* C9, amended: a started run all of whose capabilities answer reaches
\* COMPLETED or FAILED.
C9_TerminalUnlessHanging ==
  (cState = "RUNNING" /\ NoHang) ~> (cState \in {"COMPLETED", "FAILED"} /\ cResult # NoResult)

\* C9's case: a sequentialSinks over two promise-returning sinks has ended.
C9_Witness ==
  /\ cKind = "sequentialSinks" /\ cSinks = <<"resolves", "resolves">>
  /\ cState = "COMPLETED"
  /\ cResult = Return(cProm[2].val)

\* Capability i was called and failed: it threw, or its promise is
\* rejected.
CapFailed(i) ==
  /\ Invoked(i)
  /\ cSinks[i] = "throws" \/ cProm[i].st = "rejected"

\* C10: once a capability of a run has failed the run is never COMPLETED,
\* a run that has ended has ended FAILED with an error, and in the
\* step-by-step runs (sequentialSinks, complexChain) no capability after
\* the failed one is called.
C10_FailureStops ==
  \A i \in 1..Len(cSinks) :
    CapFailed(i)
      => /\ cState \in {"RUNNING", "FAILED"}
         /\ cState = "FAILED" => cResult.out = "throw"
         /\ cKind \in {"sequentialSinks", "complexChain"}
              => /\ \A n \in 1..Len(cCalls) : cCalls[n].cap <= i
                 /\ cState = "FAILED" => cResult = Throw(SinkError(i))

\* C10's case: sink1 of a sequentialSinks rejected, the run is FAILED and
\* sink2 was not called.
C10_Witness ==
  /\ cKind = "sequentialSinks" /\ cState = "FAILED"
  /\ cProm[1].st = "rejected"
  /\ ~ Invoked(2)

\* ---- ContextPropagation
\* C3, as claimed: a get right after a set of the same key returns the
\* value that was set, payload and labels.
C3_StoreLoadFidelity ==
  [][(sLast.op = "set" /\ sLast'.op = "get" /\ sLast'.key = sLast.key)
       => sLast'.res = sLast.val]_vars

\* ---- mergedSources
\* The union of the labels of the sources i..Len(sources).
RECURSIVE LabelsFrom(_, _)
LabelsFrom(sources, i) ==
  IF i > Len(sources) THEN {} ELSE Labels(sources[i]) \cup LabelsFrom(sources, i + 1)

Stepwise ==
  cKind \in {"simpleChain", "sequentialSinks", "complexChain", "mergedSources"}

Missing(key) ==
  /\ ~ HasOwn(context, key)
  /\ key \notin {KeyProto, KeyConstructor}
  /\ ~ (contextProto.k = "object" /\ HasOwn(contextProto, key))

\* C13, as claimed: a get of a key that was never set fails with NotFound
\* (or Cleared), an outcome that no stored value equals.
C13_MissingDistinguishable ==
  (sLast.op = "get" /\ ~ HasOwn(context, sLast.key))
    => sLast.res.k \in {"NotFound", "Cleared"}

\* C13, amended: a get never fails; for a key that is a property neither
\* of the context nor of its prototype chain it returns undefined, the
\* same value it returns for a key that was set to undefined.
C13_MissingReadsUndefined ==
  sLast.op = "get"
    => /\ sLast.res.k \notin {"NotFound", "Cleared"}
       /\ Missing(sLast.key) => sLast.res = Undef
       /\ (HasOwn(context, sLast.key) /\ GetOwn(context, sLast.key) = Undef)
            => sLast.res = Undef

\* C13's case: css was never set, another key was, and get('css')
\* returned undefined.
C13_Witness ==
  /\ sLast.op = "get" /\ sLast.key = KeyCss
  /\ Missing(KeyCss) /\ HasOwn(context, KeyConstructor)
  /\ sLast.res = Undef

\* ---- executeFromContext and renderFromContext
FromContext == {"executeFromContext", "renderFromContext"}

\* The sink invocations call r has made.
SinkCallsOf(r) == {n \in 1..Len(sSinkCalls) : sSinkCalls[n].run = r}

\* C14, as claimed: executeFromContext and renderFromContext never invoke
\* their sink with a value read from a key the context does not hold.
C14_MissingNotPassedOn ==
  \A n \in 1..Len(sSinkCalls) :
    sSinkCalls[n].sink \in {"executeCommand", "renderEjs"} => sSinkCalls[n].had

\* C14, amended: executeFromContext and renderFromContext invoke their
\* sink exactly once, with whatever get returned, also when the key is
\* missing: the sink then gets undefined.  No call ends BROKEN.
C14_MissingPassedOn ==
  \A r \in Runs :
    /\ sRuns[r].result.err # "BROKEN"
    /\ sRuns[r].kind \in FromContext
         => /\ Cardinality(SinkCallsOf(r)) = 1
            /\ \A n \in SinkCallsOf(r) :
                 /\ sSinkCalls[n].arg = sRuns[r].input
                 /\ (sRuns[r].kind = "executeFromContext" /\ ~ sSinkCalls[n].had
                       /\ sRuns[r].inKey = KeyCss)
                      => sSinkCalls[n].arg = Undef

\* C14's case: executeFromContext('css') on a context without css has
\* called executeCommand with undefined and was rejected.
C14_Witness ==
  \E r \in Runs :
    /\ sRuns[r].kind = "executeFromContext" /\ sRuns[r].inKey = KeyCss
    /\ sRuns[r].pc = "done" /\ sRuns[r].result.out = "throw"
    /\ \E n \in SinkCallsOf(r) : sSinkCalls[n].arg = Undef /\ ~ sSinkCalls[n].had

\* ---- concurrent writes
\* C16, as claimed: after a put, whichever call made it, the context holds
\* under that key the value that put wrote, so that the next get of the
\* key returns the value of the most recent put.
C16_LastWriteWins ==
  sLast.op = "set"
    => ContextGet(context, contextProto, sLast.key) = sLast.val

\* ---- stored preferences
\* The positions of the log at which session sid was stored before
\* position n.
StoresBefore(n, sid) ==
  {m \in 1..(n - 1) : effects[m].sink = "storeUserPreferences" /\ effects[m].sid = sid}

\* The customCss of the preferences that were stored last in session sid
\* before position n of the log.
StoredCssBefore(n, sid) ==
  LET ms == StoresBefore(n, sid)
      last == CHOOSE m \in ms : \A k \in ms : k <= m
  IN GetProp(effects[last].arg, KeyCustomCss)

\* The applyUserPreferences calls that found preferences in their session.
Applied == {t \in Tasks : tasks[t].kind = "applyUserPreferences" /\ Truthy(tasks[t].arg)}

\* C11, as claimed: an applyUserPreferences on a session in which a string
\* customCss was stored reads that string unchanged and hands it to its
\* sink.
C11_SecondOrderFlowAll ==
  \A t \in Applied :
    GetProp(tasks[t].arg, KeyCustomCss).k = "string"
      => \E n \in EffectsOf("res.write") :
           /\ effects[n].task = t
           /\ effects[n].arg = StyleTag(StoredCssBefore(n, tasks[t].sid))

\* C11, amended: the customCss an applyUserPreferences reads is the value
\* that was stored last in its session, payload and labels; when that
\* value is truthy the sink res.write is called once, with
\* `<style>${customCss}</style>`, which carries the labels of a string
\* customCss, and when it is falsy the sink is not called.
C11_SecondOrderFlow ==
  /\ \A sid \in Sessions :
       Truthy(session[sid])
         => GetProp(session[sid], KeyCustomCss)
              = StoredCssBefore(Len(effects) + 1, sid)
  /\ \A n \in EffectsOf("res.write") :
       LET css == StoredCssBefore(n, effects[n].sid) IN
       /\ Truthy(css)
       /\ effects[n].arg = StyleTag(css)
       /\ css.k = "string" => Labels(css) \subseteq Labels(effects[n].arg)
       /\ GetProp(tasks[effects[n].task].arg, KeyCustomCss) = css
  /\ \A t \in Applied :
       Cardinality({n \in EffectsOf("res.write") : effects[n].task = t})
         = IF Truthy(GetProp(tasks[t].arg, KeyCustomCss)) THEN 1 ELSE 0

\* C11's case: a labelled customCss was stored in a session, and a later
\* applyUserPreferences on that session has written it inside <style>.
C11_Witness ==
  \E n \in EffectsOf("res.write") :
    /\ StoredCssBefore(n, effects[n].sid) = Str(<<108>>, {"HTTP_BODY"})
    /\ effects[n].arg.p = TextStyleOpen \o <<108>> \o TextStyleClose
    /\ Labels(effects[n].arg) = {"HTTP_BODY"}

\* ---- writes and failures
\* The positions of the log at which a writeFile to the path returned.
WritesTo(path) == {n \in EffectsOf("writeFile") : effects[n].arg.p[1].p = path}
AllPaths ==
  {WritePath(filename).p : filename \in Paths}
    \cup {effects[n].arg.p[1].p : n \in EffectsOf("writeFile")}

\* The tasks that wrote a file and failed at a later step: their log has a
\* writeFile that returned and, after it, the response of the catch block.
FailedAfterWrite ==
  {t \in Tasks :
     \E n \in EffectsOf("writeFile"), m \in EffectsOf("res.status(500).json") :
       effects[n].task = t /\ effects[m].task = t /\ n < m}

\* C17: no write is undone. A file holds what the last writeFile to its
\* path wrote, whatever failed afterwards: the file a request wrote before
\* a later step of it failed is still there, and a path nothing was written
\* to has no file.
C17_WritesNotUndone ==
  /\ \A path \in AllPaths :
       IF WritesTo(path) = {} THEN FileIndex(files, path) = 0
       ELSE LET last == CHOOSE n \in WritesTo(path) : \A k \in WritesTo(path) : k <= n
            IN /\ FileIndex(files, path) # 0
               /\ files[FileIndex(files, path)].content = effects[last].arg.p[2]
  /\ \A t \in FailedAfterWrite :
       \A n \in EffectsOf("writeFile") :
         effects[n].task = t => FileIndex(files, effects[n].arg.p[1].p) # 0
  /\ \A t \in Tasks :
       (tasks[t].kind = "ssrfToStore" /\ tasks[t].result.out = "throw")
         => \A n \in EffectsOf("writeFile") : effects[n].task # t

\* C17's case: a fetch-and-process request wrote its file, its command
\* failed, the request answered 500, and the file holds the fetched data.
C17_Witness ==
  \E t \in FailedAfterWrite :
    /\ tasks[t].kind = "fetchAndProcess" /\ tasks[t].pc = "done"
    /\ \E i \in 1..Len(files) :
         /\ files[i].path = WritePath(GetProp(tasks[t].arg, KeySavePath)).p
         /\ files[i].content = tasks[t].data
         /\ tasks[t].data.k = "string"

\* ---- README Chain 1
\* The positions of the log that task t wrote.
EffectsBy(t) == {n \in 1..Len(effects) : effects[n].task = t}
CommandsBy(t) == {n \in EffectsBy(t) : effects[n].sink = "executeCommand"}

\* What a webhook-execute request does, in order: it first issues the fetch
\* of callbackUrl, once; it calls the command sink only with the data a
\* successful fetch answered, and the command is
\* `process_data "${externalData}" && ${commandToRun}`; a request whose
\* fetch has not succeeded, and one whose fetch failed, has not called the
\* command sink.
WebhookOrdered ==
  \A t \in Tasks :
    tasks[t].kind = "webhookExecute" =>
      LET callbackUrl == GetProp(tasks[t].arg, KeyCallbackUrl)
          commandToRun == GetProp(tasks[t].arg, KeyCommandToRun)
          externalData == tasks[t].data
          first == CHOOSE n \in EffectsBy(t) : \A k \in EffectsBy(t) : n <= k
      IN /\ EffectsBy(t) # {}
         /\ effects[first] = Effect(t, "fetchUrl", 0, callbackUrl)
         /\ Cardinality({n \in EffectsBy(t) : effects[n].sink = "fetchUrl"}) = 1
         /\ Cardinality(CommandsBy(t)) <= 1
         /\ \A n \in CommandsBy(t) :
              /\ externalData \in FetchedData(callbackUrl)
              /\ effects[n].arg.k = "string"
              /\ effects[n].arg.p = TextProcessData \o JsToString(externalData).p
                                      \o TextQuoteAnd \o commandToRun.p
         /\ Len(tasks[t].behs) = 2 => CommandsBy(t) = {}
         /\ (tasks[t].pc = "done" /\ Len(tasks[t].behs) = 2)
              => effects[CHOOSE n \in EffectsBy(t) : \A k \in EffectsBy(t) : k <= n].sink
                   = "res.status(500).json"

RECURSIVE StringsOf(_)
\* The strings a value holds: the string itself, or the strings of the
\* items of an array or object.
StringsOf(v) ==
  IF v.k = "string" THEN {v.p}
  ELSE UNION {StringsOf(Items(v)[i]) : i \in 1..Len(Items(v))}

\* What stands between the quotes of `process_data "..." && commandToRun`.
QuotedArgument(command, commandToRun) ==
  SubSeq(command, Len(TextProcessData) + 1,
         Len(command) - Len(TextQuoteAnd) - Len(commandToRun.p))

\* C19: a webhook-execute request issues the fetch of callbackUrl first and
\* calls the command sink only after the fetch succeeded, never after it
\* failed; the command holds the fetched data (between its quotes stands
\* every string of the data, with the labels of the data) and commandToRun.
C19_FetchThenCommand ==
  /\ WebhookOrdered
  /\ \A t \in Tasks :
       tasks[t].kind = "webhookExecute" =>
         \A n \in CommandsBy(t) :
           LET commandToRun == GetProp(tasks[t].arg, KeyCommandToRun)
               externalData == tasks[t].data
               quoted == QuotedArgument(effects[n].arg.p, commandToRun)
           IN /\ \A text \in StringsOf(externalData) : IndexOf(quoted, text) # 0
              /\ IndexOf(effects[n].arg.p, commandToRun.p) # 0
              /\ Labels(externalData) \cup Labels(commandToRun)
                   \subseteq Labels(effects[n].arg)

\* ---- WebSocket messages
\* The replies of task t: the positions of the log at which it sent.
SendsBy(t) == {n \in EffectsBy(t) : effects[n].sink = "ws.send"}

\* The text of a reply starts with {"<key>":
RepliesWith(text, key) ==
  LET head == <<123>> \o QuoteJSONString(key) \o <<58>>
  IN Len(text) >= Len(head) /\ SubSeq(text, 1, Len(head)) = head

\* The tasks that handle a message, and those of them that have ended.
MessageTasks ==
  {t \in Tasks : tasks[t].kind \in {"message", "default", "broadcastMessage"}
                                     \cup DOMAIN ReplyKey}
EndedMessages == {t \in MessageTasks : tasks[t].pc = "done"}

\* C18: a message handler that caught an exception, from JSON.parse or from
\* the handling, has sent one reply, last of all it did, on the socket of
\* the message, and the reply is {error: message}.  Every other handler
\* meets its own contract whatever happened to the handlers before it or
\* beside it: a handler that ended without exception and is no broadcast
\* has sent its one reply on its own socket, and a suspended handler has
\* sent nothing.
C18_ErrorIsolation ==
  /\ \A t \in EndedMessages :
       tasks[t].caught # "" =>
         /\ Cardinality(SendsBy(t)) = 1
         /\ \A n \in SendsBy(t) :
              /\ effects[n].sid = tasks[t].sid
              /\ effects[n].arg = JsonStringify(ErrorBody(tasks[t].caught))
              /\ RepliesWith(effects[n].arg.p, KeyError)
              /\ \A k \in EffectsBy(t) : k <= n
  /\ \A t \in EndedMessages :
       (tasks[t].caught = "" /\ tasks[t].kind # "broadcastMessage") =>
         /\ Cardinality(SendsBy(t)) = 1
         /\ \A n \in SendsBy(t) :
              /\ effects[n].sid = tasks[t].sid
              /\ RepliesWith(effects[n].arg.p,
                             IF tasks[t].kind = "default" THEN KeyError
                             ELSE ReplyKey[tasks[t].kind])
  /\ \A t \in MessageTasks : tasks[t].pc = "await" => SendsBy(t) = {}
  /\ \A t \in MessageTasks : tasks[t].result.out # "throw"

\* C18's case: the handler of a message caught an exception and replied
\* {error}; after that a second message came in on the same socket, which
\* is still open, and its handler has replied with its result.
C18_Witness ==
  \E t \in EndedMessages, u \in EndedMessages :
    /\ tasks[t].caught # "" /\ tasks[u].caught = ""
    /\ tasks[u].kind \in DOMAIN ReplyKey
    /\ tasks[t].sid = tasks[u].sid
    /\ sockets[tasks[t].sid].state = "open"
    /\ \A n \in EffectsBy(t), k \in EffectsBy(u) : n < k
    /\ SendsBy(u) # {}

\* ---- README Chain 4
\* The message {action: 'processAndStore', payload: {userId, data, exportPath}}.
Chain4Message == WsText(TextProcessAndStore, PasPayload)

\* The positions of the log at which task t called the sink.
CallsBy(t, sink) == {n \in EffectsBy(t) : effects[n].sink = sink}

\* The reply {status: 'processed'} of task t.
ProcessedBy(t) ==
  {n \in SendsBy(t) :
     effects[n].arg = JsonStringify(Obj(<<Prop(KeyStatus, Str(TextProcessed, {}))>>))}

\* Task t did the steps of processAndStore in their order: logAction first,
\* getLogsForUser after it, writeFile after that, and the reply
\* {status: 'processed'} after a writeFile that returned.
ProcessAndStoreInOrder(t) ==
  /\ EffectsBy(t) # {}
  /\ \A n \in EffectsBy(t) : \E k \in CallsBy(t, "logAction") : k <= n
  /\ \A n \in CallsBy(t, "writeFile") \cup CallsBy(t, "writeFile throws") :
       \E k \in CallsBy(t, "getLogsForUser") : k < n
  /\ \A n \in ProcessedBy(t) :
       /\ \E k \in CallsBy(t, "writeFile") : k < n
       /\ tasks[t].data = AuditRows(GetProp(PasPayload, KeyUserId))
  /\ \A n \in SendsBy(t) : n \in ProcessedBy(t)

\* The calls of WebSocketEventHandler.processAndStore do its steps in their
\* order.
ProcessAndStoreOrdered ==
  \A t \in Tasks : tasks[t].kind = "processAndStore" => ProcessAndStoreInOrder(t)

\* C20, as claimed: the handling of a message whose action is
\* 'processAndStore' does the steps of WebSocketEventHandler.processAndStore:
\* logAction, then getLogsForUser, then writeFile, and the reply
\* {status: 'processed'} only after the three succeeded.
C20_Chain4Routed ==
  \A t \in Tasks :
    (tasks[t].arg = Chain4Message \/ tasks[t].kind = "processAndStore")
      => ProcessAndStoreInOrder(t)

\* ---- SinkDispatcher
\* The dispatcher calls, and the positions of the log at which one of them
\* called a sink.
DispatchTasks == {t \in Tasks : tasks[t].kind \in DispatchMethods}
Dispatched(t) == EffectsBy(t)

\* C21, as claimed: whether the sink accepted the value or raised, what is
\* kept of the invocation carries the labels of the sink's input.
C21_ObservedLabelsEcho ==
  \A t \in DispatchTasks :
    tasks[t].pc = "done" =>
      \A n \in Dispatched(t) : Labels(tasks[t].result.val) = Labels(effects[n].arg)

\* C21, amended: a dispatcher call invokes at most one sink, the one of the
\* case of its action, with the properties of data the case names, as
\* they are (the values are plain: the sink is given nothing else, and what
\* it is given has the provenance of those properties).  It keeps no record: a call whose sink accepted
\* returns the sink's answer, a call whose sink raised ends with the sink's
\* error, which carries nothing of the input, and a call without a case or
\* without data ends with an error and has invoked no sink.
C21_DispatchHandsOver ==
  \A t \in DispatchTasks :
    /\ Cardinality(Dispatched(t)) <= 1
    /\ \A n \in Dispatched(t) :
         \E c \in DispatchCases :
           /\ c.method = tasks[t].kind /\ c.sink = effects[n].sink
           /\ effects[n].arg = DispatchArgs(c.keys, tasks[t].arg)
           /\ Labels(effects[n].arg) = Labels(DispatchArgs(c.keys, tasks[t].arg))
           /\ tasks[t].result.out = "return"
                => tasks[t].result.val = SinkAnswer(files, effects[n].sink, effects[n].arg)
           /\ tasks[t].result.out = "throw"
                => /\ tasks[t].result.err \in SinkErrors(t, effects[n].sink)
                   /\ Labels(tasks[t].result.val) = {}
    /\ (tasks[t].pc = "done" /\ Dispatched(t) = {})
         => /\ tasks[t].result.out = "throw"
            /\ tasks[t].result.err \in {"Unknown action", "Unknown engine", "TypeError"}

\* C21's case: a sink was invoked with a value from the request body and
\* raised; the call ended with the sink's error.
C21_Witness ==
  \E t \in DispatchTasks :
    /\ tasks[t].pc = "done" /\ tasks[t].result.out = "throw"
    /\ \E n \in Dispatched(t) : Labels(effects[n].arg) = {"HTTP_BODY"}

\* ---- the lifetimes of what a run writes
\* The middleware that read req.user, and those that write it.
UserReaders == {"requireRole", "requireAdmin", "requirePermission"}
UserWriters == {"extractUser", "validateSamlResponse"}

\* C22, the entries of the process: what a call has set under a key of the
\* context stays readable by the calls after it, so that a
\* chainThroughContext that starts when the last operation on the context
\* was a set of its input key reads the value that was set.
C22_ProcessEntriesStay ==
  [][\A r \in Runs :
       (/\ sRuns[r].pc = "idle"
        /\ sRuns'[r].kind = "chainThroughContext"
        /\ sLast.op = "set"
        /\ sLast.key = sRuns'[r].inKey)
         => sRuns'[r].input = sLast.val]_vars

\* C22, the entries of a request: req.user is read as undefined by every
\* middleware of a request in which no middleware has written it before,
\* whatever other requests, earlier or concurrent, have written to theirs.
C22_RequestEntriesEnd ==
  \A n \in 1..Len(effects) :
    (effects[n].sink \in UserReaders /\ effects[n].arg # Undef)
      => \E m \in 1..(n - 1) :
           /\ effects[m].task = effects[n].task
           /\ effects[m].sink \in UserWriters

\* C22, the entries of a session: req.session.user changes only when a
\* request of that session completes a login, to the user of that login,
\* and is never removed.
C22_SessionEntriesStay ==
  [][\A sid \in Sessions :
       sessionUser'[sid] # sessionUser[sid]
         => \E t \in Tasks :
              /\ tasks[t].sid = sid
              /\ tasks[t].pc = "parseXml"
              /\ tasks'[t].data = sessionUser'[sid]
              /\ Truthy(sessionUser'[sid])]_vars

\* A login has stored a user in a session, and a later request of another
\* task was refused by a reader of req.user that saw none.
C22_SessionWitness ==
  \E n \in 1..Len(effects), sid \in Sessions :
    /\ Truthy(sessionUser[sid])
    /\ effects[n].sink \in UserReaders
    /\ effects[n].sid = sid
    /\ effects[n].arg = Undef
    /\ \E t \in Tasks : t # effects[n].task /\ tasks[t].data = sessionUser[sid]

Returning(r) ==
  /\ sRuns[r].kind = "chainThroughContext" /\ sRuns[r].pc = "await"
  /\ sRuns'[r].pc = "done" /\ sRuns'[r].result.out = "return"
Failing(r) ==
  /\ sRuns'[r].kind = "chainThroughContext"
  /\ sRuns[r].pc # "done" /\ sRuns'[r].pc = "done"
  /\ sRuns'[r].result.out = "throw"

\* C24, for the keys in keys: a chainThroughContext that returns has
\* written under outputKey the value it returns, the context holds that
\* value under outputKey, and the value is the result of the sink.
StoredIsReturned(keys) ==
  \A r \in Runs :
    (Returning(r) /\ sRuns[r].outKey \in keys)
      => /\ sLast' = SetCall(sRuns[r].outKey, sRuns'[r].result.val)
         /\ sRuns'[r].result.val = sRuns[r].prom.val
         /\ ContextGet(context', contextProto', sRuns[r].outKey) = sRuns'[r].result.val

\* C24, as claimed: for every outputKey.
C24_StoredIsReturned == [][StoredIsReturned(StoreKeys)]_vars

\* C24 for every outputKey but __proto__.
C24_StoredIsReturnedOwnKeys == [][StoredIsReturned(StoreKeys \ {KeyProto})]_vars

\* C30, for the keys in keys: a chainThroughContext whose sink succeeded
\* changes of the context only outputKey, which becomes the result of the
\* sink; one whose sink threw or rejected leaves the context as it was
\* and ends with the error of the sink.
ChainThroughFrame(keys) ==
  \A r \in Runs :
    /\ (Returning(r) /\ sRuns[r].outKey \in keys)
         => /\ ContextGet(context', contextProto', sRuns[r].outKey) = sRuns[r].prom.val
            /\ \A key \in StoreKeys \ {sRuns[r].outKey} :
                 ContextGet(context', contextProto', key)
                   = ContextGet(context, contextProto, key)
    /\ Failing(r)
         => /\ context' = context /\ contextProto' = contextProto
            /\ sRuns'[r].result.err = SinkError(r)

\* C30, as claimed: for every outputKey.
C30_ChainThroughFrame == [][ChainThroughFrame(StoreKeys)]_vars

\* C30 for every outputKey but __proto__.
C30_ChainThroughFrameOwnKeys == [][ChainThroughFrame(StoreKeys \ {KeyProto})]_vars

\* ---- the registry of the WebSocket clients
\* The sockets the clients map holds an entry for.
Registered == {clients[i].ws : i \in 1..Len(clients)}
OpenSockets == {s \in Sockets : sockets[s].state = "open"}

\* C25, as claimed: the clients map holds an entry for every connection
\* that is open and for no connection that has closed, whatever client ids
\* the connections presented.
C25_RegistryConsistent == Registered = OpenSockets

\* C25 for connections with client ids of their own: as long as no two
\* connections have presented the same client id, the map holds exactly
\* the open connections, each under its client id.
C25_RegistryOfDistinctIds ==
  (\A r, s \in Sockets :
     (r # s /\ sockets[r].state # "none" /\ sockets[s].state # "none")
       => sockets[r].clientId # sockets[s].clientId)
    => /\ Registered = OpenSockets
       /\ \A i \in 1..Len(clients) : clients[i].id = sockets[clients[i].ws].clientId

\* ---- the dispatch of the WebSocket messages
\* The six actions of handleMessage, each with its method and the sink the
\* method calls; broadcast calls no sink.
HandledActions ==
  {[action |-> TextExecuteCommand, method |-> "executeRemoteCommand", sink |-> "executeWithArgs"],
   [action |-> TextFetchUrl, method |-> "fetchRemoteUrl", sink |-> "fetchUrl"],
   [action |-> TextReadFile, method |-> "readRemoteFile", sink |-> "readFile"],
   [action |-> TextRenderTemplate, method |-> "renderTemplate", sink |-> "renderNunjucks"],
   [action |-> TextQueryDatabase, method |-> "queryDatabase", sink |-> "findByField"],
   [action |-> TextBroadcast, method |-> "broadcastMessage", sink |-> "none"]}

\* The positions of the log at which task t called something that is no
\* send on a socket.
SinkCallsBy(t) == EffectsBy(t) \ SendsBy(t)

\* The reply {error: 'Unknown action'}
UnknownActionReply ==
  JsonStringify(Obj(<<Prop(KeyError, Str(TextUnknownAction, {}))>>))

\* Task t handles the message m, which JSON.parse has parsed.
HandlesParsed(t, m) ==
  /\ t \in MessageTasks
  /\ tasks[t].arg = m.text
  /\ m.parsed.out = "return"

\* A message whose action is one of the six is handled by the method of
\* that action and by no other: what the handling calls is the sink of that
\* method, at most once, and, broadcasts apart, it sends at most one reply.
\* A message with any other action calls no sink and sends one reply,
\* {error: 'Unknown action'}, on the socket it came from: it has sent it
\* when its handling has ended, and sends nothing else.
OneHandler(t, m) ==
  LET action == GetProp(m.parsed.val, KeyAction)
      cases == {c \in HandledActions : action.k = "string" /\ action.p = c.action}
  IN /\ Cardinality(cases) <= 1
     /\ \A c \in cases :
          /\ tasks[t].kind = c.method
          /\ Cardinality(SinkCallsBy(t)) <= 1
          /\ \A n \in SinkCallsBy(t) : effects[n].sink = c.sink
          /\ c.method # "broadcastMessage" => Cardinality(SendsBy(t)) <= 1
     /\ cases = {}
          => /\ SinkCallsBy(t) = {}
             /\ Cardinality(SendsBy(t)) <= 1
             /\ tasks[t].pc = "done" => Cardinality(SendsBy(t)) = 1
             /\ \A n \in SendsBy(t) :
                  /\ effects[n].arg = UnknownActionReply
                  /\ effects[n].sid = tasks[t].sid

\* C29: every parsed message is handled by the one method of its action,
\* and a message with any other action, or with none, calls no sink and is
\* answered once with {error: 'Unknown action'}.
C29_OneHandlerPerMessage ==
  \A t \in Tasks, m \in ParsedMessages : HandlesParsed(t, m) => OneHandler(t, m)

\* The same for the messages that are not null: objects, which
\* `const { action, payload } = data` can destructure.
ObjectMessagesHandled ==
  \A t \in Tasks, m \in ParsedMessages :
    (HandlesParsed(t, m) /\ m.parsed.val.k = "object") => OneHandler(t, m)

\* ---- the middleware
\* The positions of the log at which a middleware was invoked, what the
\* request did from there up to its next middleware, and what of that is a
\* call of next() or a response.
Invocations == {n \in 1..Len(effects) : effects[n].sink \in MiddlewareNames}
During(n) ==
  {m \in (n + 1)..Len(effects) :
     /\ effects[m].task = effects[n].task
     /\ \A k \in (n + 1)..m :
          effects[k].task = effects[n].task => effects[k].sink \notin MiddlewareNames}
Outcomes(n) == {m \in During(n) : effects[m].sink \in ResponseSinks \cup {"next"}}

\* The invocation at position n has ended: the request is at its next
\* middleware or has ended, and is not waiting inside the middleware.
HasEnded(n) ==
  \/ tasks[effects[n].task].pc \in {"route", "done"}
  \/ \E m \in (n + 1)..Len(effects) :
       effects[m].task = effects[n].task /\ effects[m].sink \in MiddlewareNames

\* Of the invocations in ns, none has both called next() and answered or
\* done either twice, and each that has ended has done one of the two.  A
\* response of the error handler of server.js counts as a response.
OneOutcome(ns) ==
  \A n \in ns :
    /\ Cardinality(Outcomes(n)) <= 1
    /\ HasEnded(n) => Cardinality(Outcomes(n)) = 1

\* C26, as claimed: every invocation of every middleware of AuthMiddleware.
C26_OneOutcome == OneOutcome(Invocations)

\* C26 for every middleware but debugAuth.
C26_OneOutcomeCaught ==
  OneOutcome({n \in Invocations : effects[n].sink # "debugAuth"})

\* ---- the admin router
\* req.user exists and its role is exactly the string 'admin'.
IsAdmin(user) ==
  /\ user.k = "object"
  /\ HasOwn(user, KeyRole)
  /\ GetOwn(user, KeyRole).k = "string"
  /\ GetOwn(user, KeyRole).p = TextAdmin

\* C28: a request under /admin gets to the admin router only when req.user
\* has the role 'admin' at the time requireAdmin runs; every other request
\* is answered 403 by requireAdmin and does nothing after that.
C28_AdminGating ==
  /\ \A n \in 1..Len(effects) :
       effects[n].sink = "requireAdmin" =>
         /\ Len(effects) >= n + 1
         /\ IF IsAdmin(effects[n].arg)
              THEN /\ effects[n + 1].sink = "next"
                   /\ Len(effects) >= n + 2
                   /\ effects[n + 2].sink = "adminRoutes"
                   /\ effects[n + 2].task = effects[n].task
            ELSE /\ effects[n + 1].sink = "res.status(403).json"
                 /\ effects[n + 1].task = effects[n].task
                 /\ \A m \in (n + 2)..Len(effects) : effects[m].task # effects[n].task
  /\ \A m \in 1..Len(effects) :
       effects[m].sink = "adminRoutes" =>
         /\ m > 2
         /\ effects[m - 2].sink = "requireAdmin"
         /\ effects[m - 2].task = effects[m].task
         /\ IsAdmin(effects[m - 2].arg)

\* A request whose token claims the role 'admin' got to the admin router,
\* and a request with a req.user whose role is no string, and one without
\* req.user, were answered 403.
C28_Witness ==
  \E n \in 1..Len(effects), k \in 1..Len(effects) :
    /\ effects[n].sink = "adminRoutes"
    /\ effects[k].sink = "requireAdmin"
    /\ ~ IsAdmin(effects[k].arg)
    /\ effects[k + 1].sink = "res.status(403).json"

\* ---- the lazy connections
\* The calls of getMongoConnection that have returned a handle, and the
\* clients whose connect() has completed.
MongoReturned ==
  {t \in Tasks : /\ tasks[t].kind = "getMongoConnection" /\ tasks[t].pc = "done"
                 /\ tasks[t].result.out = "return"}
Connected ==
  {tasks[t].sid : t \in {u \in Tasks : /\ tasks[u].kind = "getMongoConnection"
                                         /\ tasks[u].prom.st = "fulfilled"}}
PoolReturned ==
  {t \in Tasks : tasks[t].kind = "getMySQLConnection" /\ tasks[t].pc = "done"}

\* C27, the part about creation: at most one MongoClient and at most one
\* pool is ever created, and every call of getMySQLConnection returns that
\* pool.
C27_CreatedOnce ==
  /\ Created("new MongoClient") <= 1
  /\ Created("mysql.createPool") <= 1
  /\ \A t \in PoolReturned :
       /\ tasks[t].result = Return(Num(1, {}))
       /\ database.mysqlPool = 1

\* C27, as claimed: creation happens once, and no call of
\* getMongoConnection has returned a handle of a client whose connect()
\* has not completed.
C27_LazyConnections ==
  /\ C27_CreatedOnce
  /\ \A t \in MongoReturned : tasks[t].sid \in Connected


====
